---- MODULE Spec2Model ----
(***************************************************************************)
(* A model of hairydogm: the callback-data codec (hairydogm/callback_data  *)
(* and hairydogm/filters/callback_data), its callback-query filter and the *)
(* inline keyboard builder (hairydogm/keyboard).                           *)
(*                                                                         *)
(* Text is a sequence of characters; a character is a one-element name     *)
(* ("a", ":", "5", and "e_acute" for a character of two UTF-8 bytes).      *)
(***************************************************************************)
EXTENDS Integers, Sequences, FiniteSets, TLC

VARIABLES
    cls,        \* the declared CallbackData subclass (module, prefix, separator, fields)
    x,          \* the instance built from the class
    packed,     \* outcome of x.pack()
    unpacked,   \* outcome of cls.unpack(raw)
    fres,       \* the call of CallbackQueryFilter.__call__: rule, query and outcome
    pc,         \* position of the codec scenario
    markup,     \* InlineKeyboardBuilder._markup of the builder
    other,      \* _markup of a second builder (argument of attach)
    nextId,     \* identity of the next button object created
    kerr,       \* outcome of the last keyboard-builder call ("" or the error raised)
    kcall,      \* name of the last keyboard-builder call ("" before the first)
    kargs,      \* arguments of the last keyboard-builder call
    kprev,      \* _markup as it was when the last keyboard-builder call was made
    ops,        \* number of keyboard-builder calls made
    kpc,        \* "none" before the builder is constructed, then "ready" or "failed"
    heap,       \* the list and button objects of the ownership scenario, by reference
    self_markup,    \* reference of the builder's _markup (0 before construction)
    their_markup,   \* reference of a second builder's _markup
    arg,        \* reference of the list the builder was constructed from (0 for none)
    exported,   \* reference of the list the last export() returned (0 for none)
    ocall,      \* name of the last step of the ownership scenario
    oprev,      \* the grids' values before the last step
    nextText,   \* text of the next button the caller creates
    oops,       \* number of steps of the ownership scenario made
    sender,     \* ChatActionSender: _task (0 for None), _close_event, _closed_event
    workers,    \* the worker tasks created so far, each at its position in _worker
    lock,       \* holder of ChatActionSender._lock (0 when it is free)
    lockq,      \* the callers waiting for the lock, first come first
    cpc,        \* position of each caller of start and stop
    me,         \* client.me is set (the bot is started)
    sent,       \* number of chat actions sent
    calls,      \* number of calls of start and stop made
    slast,      \* the last call of start or stop that returned or raised
    tasks,      \* the logical tasks: each one's context and open use_locale blocks
    lcall,      \* the last operation on the I18n instance, and the tasks before it
    lops        \* number of operations made on the I18n instance

\* The callers of start and stop on one sender.
Callers == {1, 2}

\* A ChatActionSender after __init__: no task, both events clear.
NewSender == [task |-> 0, close_event |-> FALSE, closed_event |-> FALSE]

\* A worker task that has not run yet: pc is its position in _worker, counter
\* its count of sends, exception what the task ended with ("" for nothing).
NewWorker == [pc |-> "created", counter |-> 0, exception |-> ""]

\* No call of start or stop has ended yet.  before is the sender, nworkers the
\* number of workers and worker the sender's worker (NewWorker if it had none)
\* when the call's body began; fresh is true in the state the call ended in and
\* false from the next step on.
NoCall ==
    [caller |-> 0, op |-> "", result |-> "", before |-> NewSender, nworkers |-> 0,
     worker |-> NewWorker, fresh |-> FALSE]

\* ContextVar("hydrogram_ctx_locale", default=default_locale): the variable has
\* no value in a context until it is set there.
Missing == "MISSING"

\* The main task: an empty context, no use_locale block open, no parent.
RootTask == [ctx |-> Missing, blocks |-> <<>>, parent |-> 0]

\* No operation has been made on the I18n instance yet.
NoLocaleCall == [task |-> 0, op |-> "", locale |-> "", how |-> "", prev |-> <<>>]

\* The values of the grids of the ownership scenario: the builder's, the one of
\* the list it was constructed from, the exported one and the second builder's.
NoGrids == [self |-> <<>>, arg |-> <<>>, exported |-> <<>>, their |-> <<>>]

\* The arguments of a keyboard-builder call: buttons (add, row, button), width
\* (row; has_width is false when it is left out), sizes and repeat (adjust),
\* markup (the constructor), builder (attach).
NoArgs ==
    [buttons |-> <<>>, has_width |-> FALSE, width |-> [kind |-> "int", n |-> 8],
     sizes |-> <<>>, repeat |-> FALSE, markup |-> <<>>,
     builder |-> [button_type |-> "InlineKeyboardButton", markup |-> <<>>]]

codecVars == <<cls, x, packed, unpacked, fres, pc>>
kbVars == <<markup, other, nextId, kerr, kcall, kargs, kprev, ops, kpc>>
senderVars == <<sender, workers, lock, lockq, cpc, me, sent, calls, slast>>
localeVars == <<tasks, lcall, lops>>
ownVars == <<heap, self_markup, their_markup, arg, exported, ocall, oprev, nextText, oops>>
vars ==
    <<cls, x, packed, unpacked, fres, pc, markup, other, nextId, kerr, kcall, kargs, kprev,
      ops, kpc, heap, self_markup, their_markup, arg, exported, ocall, oprev, nextText, oops,
      sender, workers, lock, lockq, cpc, me, sent, calls, slast, tasks, lcall, lops>>

----------------------------------------------------------------------------
(* Bounds of the model. *)

\* Short texts are all texts of at most MaxText characters over ShortAlphabet.
MaxText == 2
\* Long texts have between MAX_CALLBACK_LENGTH - Slack and MAX_CALLBACK_LENGTH characters.
Slack == 3
\* A keyboard scenario makes at most MaxOps calls on the builder after constructing it.
MaxOps == 2
\* An ownership scenario makes at most MaxOwnOps steps after constructing the builder.
MaxOwnOps == 3
\* A sender scenario makes at most MaxCalls calls of start and stop.
MaxCalls == 4
\* A worker's wait times out only while fewer than MaxSends chat actions were sent.
MaxSends == 2

----------------------------------------------------------------------------
(* Text primitives (Python str). *)

MAX_CALLBACK_LENGTH == 64

Digits == <<"0", "1", "2", "3", "4", "5", "6", "7", "8", "9">>
HexChars == {"0", "1", "2", "3", "4", "5", "6", "7", "8", "9", "a", "b", "c", "d", "e", "f"}

\* Number of bytes of one character in UTF-8.
Utf8Width(c) == IF c = "e_acute" THEN 2 ELSE 1

RECURSIVE Utf8Len(_)
\* len(s.encode()): the sum of the characters' widths (summed by halves).
Utf8Len(s) ==
    IF s = <<>> THEN 0
    ELSE IF Len(s) = 1 THEN Utf8Width(s[1])
    ELSE Utf8Len(SubSeq(s, 1, Len(s) \div 2)) + Utf8Len(SubSeq(s, (Len(s) \div 2) + 1, Len(s)))

\* sub in s
Contains(sub, s) ==
    \E i \in 1..(Len(s) - Len(sub) + 1) : SubSeq(s, i, i + Len(sub) - 1) = sub

\* s.find(sub): the least position of sub in s, 0 when there is none.
Find(sub, s) ==
    IF Contains(sub, s)
    THEN CHOOSE i \in 1..(Len(s) - Len(sub) + 1) :
            /\ SubSeq(s, i, i + Len(sub) - 1) = sub
            /\ \A j \in 1..(i - 1) : SubSeq(s, j, j + Len(sub) - 1) # sub
    ELSE 0

RECURSIVE Split(_, _)
\* s.split(sep) for a non-empty sep: leftmost matches, not overlapping.
Split(s, sep) ==
    LET i == Find(sep, s) IN
    IF i = 0 THEN <<s>>
    ELSE <<SubSeq(s, 1, i - 1)>> \o Split(SubSeq(s, i + Len(sep), Len(s)), sep)

RECURSIVE Join(_, _)
\* sep.join(parts)
Join(sep, parts) ==
    IF parts = <<>> THEN <<>>
    ELSE IF Len(parts) = 1 THEN parts[1]
    ELSE parts[1] \o sep \o Join(sep, Tail(parts))

\* c * n
Rep(c, n) == [i \in 1..n |-> c]

RECURSIVE NatToStr(_)
NatToStr(n) ==
    IF n < 10 THEN <<Digits[n + 1]>>
    ELSE NatToStr(n \div 10) \o <<Digits[(n % 10) + 1]>>

\* str(n) of an int
IntToStr(n) == IF n < 0 THEN <<"-">> \o NatToStr(0 - n) ELSE NatToStr(n)

IsDigit(c) == \E d \in 1..10 : Digits[d] = c
DigitVal(c) == (CHOOSE d \in 1..10 : Digits[d] = c) - 1

RECURSIVE DigitsToNat(_, _)
DigitsToNat(s, acc) ==
    IF s = <<>> THEN acc ELSE DigitsToNat(Tail(s), acc * 10 + DigitVal(Head(s)))

----------------------------------------------------------------------------
(* Values of fields.  Every value is a record of one shape: kind names the *)
(* Python type, n holds an int or a bool (1/0), s holds a text, or the 32  *)
(* hexadecimal digits of a UUID.                                           *)

NoneV == [kind |-> "none", n |-> 0, s |-> <<>>]
IntV(i) == [kind |-> "int", n |-> i, s |-> <<>>]
StrV(t) == [kind |-> "str", n |-> 0, s |-> t]
BoolV(b) == [kind |-> "bool", n |-> IF b THEN 1 ELSE 0, s |-> <<>>]
UuidV(h) == [kind |-> "UUID", n |-> 0, s |-> h]
ListV == [kind |-> "list", n |-> 0, s |-> <<>>]

\* uuid.hex: the 32 lowercase hexadecimal digits.
UuidHex(v) == v.s

\* str(uuid): the digits in groups of 8-4-4-4-12 joined by hyphens.
UuidStr(v) ==
    SubSeq(v.s, 1, 8) \o <<"-">> \o SubSeq(v.s, 9, 12) \o <<"-">> \o SubSeq(v.s, 13, 16)
        \o <<"-">> \o SubSeq(v.s, 17, 20) \o <<"-">> \o SubSeq(v.s, 21, 32)

\* One field's value in BaseModel.model_dump(mode="json"): JSON scalars stay as
\* they are and a UUID becomes its str() form.
DumpJsonValue(v) == IF v.kind = "UUID" THEN StrV(UuidStr(v)) ELSE v

\* self.model_dump(mode="json"): the fields in declaration order.
ModelDumpJson(inst) == [i \in 1..Len(inst) |-> DumpJsonValue(inst[i])]

----------------------------------------------------------------------------
(* Field declarations: the declared type, whether the annotation is        *)
(* Optional[type] (a typing.Union with NoneType), and whether the field is *)
(* required (has no default).                                              *)

FieldDecl(t, opt, req) == [type |-> t, optional |-> opt, required |-> req]

\* typing.get_origin(field.annotation)
GetOrigin(f) == IF f.optional THEN "typing.Union" ELSE "None"

\* typing.get_args(field.annotation): the member types of the union.
GetArgs(f) == IF f.optional THEN {f.type, "NoneType"} ELSE {}

\* hairydogm/callback_data.py: not required, or the union's origin is one of its args.
CheckFieldIsNullableTop(f) ==
    IF ~f.required THEN TRUE
    ELSE IF GetOrigin(f) = "typing.Union" THEN GetOrigin(f) \in GetArgs(f) ELSE FALSE

\* hairydogm/filters/callback_data.py: not required, or a union with None among its
\* args (the args hold the type NoneType; the object None is none of them).
CheckFieldIsNullableFilters(f) ==
    ~f.required \/ (GetOrigin(f) = "typing.Union" /\ "None" \in GetArgs(f))

_check_field_is_nullable(module, f) ==
    IF module = "top" THEN CheckFieldIsNullableTop(f) ELSE CheckFieldIsNullableFilters(f)

----------------------------------------------------------------------------
(* Class declaration: CallbackData.__init_subclass__ and its kwargs.       *)
(* kw: has_prefix/prefix and has_sep/sep model the keyword arguments.  The  *)
(* outcome of a declaration is a record: declared is false when the        *)
(* declaration raised, error then holds what it raised; kw keeps the       *)
(* keyword arguments the declaration was given.                            *)

NoKwargs == [has_prefix |-> FALSE, prefix |-> <<>>, has_sep |-> FALSE, sep |-> <<>>]

NoClass ==
    [declared |-> FALSE, error |-> "", module |-> "top", prefix |-> <<>>, sep |-> <<>>,
     fields |-> <<>>, kw |-> NoKwargs]

KwSep(kw) == IF kw.has_sep THEN kw.sep ELSE <<":">>

\* hairydogm/callback_data.py: the attributes are set, then the prefix is checked.
InitSubclassTop(kw, fields) ==
    IF ~kw.has_prefix
    THEN [NoClass EXCEPT !.error = "prefix required", !.kw = kw]
    ELSE IF Contains(KwSep(kw), kw.prefix)
    THEN [NoClass EXCEPT !.error = "separator inside prefix", !.kw = kw]
    ELSE [declared |-> TRUE, error |-> "", module |-> "top", prefix |-> kw.prefix,
          sep |-> KwSep(kw), fields |-> fields, kw |-> kw]

\* hairydogm/filters/callback_data.py: the prefix is checked, then the attributes are set.
InitSubclassFilters(kw, fields) ==
    IF ~kw.has_prefix
    THEN [NoClass EXCEPT !.error = "prefix required", !.module = "filters", !.kw = kw]
    ELSE IF Contains(KwSep(kw), kw.prefix)
    THEN [NoClass EXCEPT !.error = "separator inside prefix", !.module = "filters", !.kw = kw]
    ELSE [declared |-> TRUE, error |-> "", module |-> "filters", prefix |-> kw.prefix,
          sep |-> KwSep(kw), fields |-> fields, kw |-> kw]

\* A variant of __init_subclass__ that never looks for the separator in the prefix.
InitSubclassPrefixUnchecked(module, kw, fields) ==
    IF ~kw.has_prefix
    THEN [NoClass EXCEPT !.error = "prefix required", !.module = module, !.kw = kw]
    ELSE [declared |-> TRUE, error |-> "", module |-> module, prefix |-> kw.prefix,
          sep |-> KwSep(kw), fields |-> fields, kw |-> kw]

__init_subclass__(module, kw, fields) ==
    IF module = "top" THEN InitSubclassTop(kw, fields) ELSE InitSubclassFilters(kw, fields)

----------------------------------------------------------------------------
(* Encoding: CallbackData._encode_value and CallbackData.pack.             *)

\* hairydogm/callback_data.py: a chain of isinstance tests.
EncodeValueTop(v) ==
    IF v.kind = "none" THEN [ok |-> TRUE, tok |-> <<>>]
    ELSE IF v.kind = "UUID" THEN [ok |-> TRUE, tok |-> UuidHex(v)]
    ELSE IF v.kind = "bool" THEN [ok |-> TRUE, tok |-> IntToStr(v.n)]
    ELSE IF v.kind = "int" THEN [ok |-> TRUE, tok |-> IntToStr(v.n)]
    ELSE IF v.kind = "str" THEN [ok |-> TRUE, tok |-> v.s]
    ELSE [ok |-> FALSE, tok |-> <<>>]

\* hairydogm/filters/callback_data.py: a table keyed by type(value).
EncodeValueFilters(v) ==
    IF v.kind = "none" THEN [ok |-> TRUE, tok |-> <<>>]
    ELSE CASE v.kind = "UUID" -> [ok |-> TRUE, tok |-> UuidHex(v)]
           [] v.kind = "bool" -> [ok |-> TRUE, tok |-> IntToStr(v.n)]
           [] v.kind = "int" -> [ok |-> TRUE, tok |-> IntToStr(v.n)]
           [] v.kind = "str" -> [ok |-> TRUE, tok |-> v.s]
           [] OTHER -> [ok |-> FALSE, tok |-> <<>>]

\* A variant of _encode_value that writes None as the text "None".
EncodeNoneAsText(module, v) ==
    IF v.kind = "none" THEN [ok |-> TRUE, tok |-> <<"N", "o", "n", "e">>]
    ELSE EncodeValueTop(v)

_encode_value(module, v) ==
    IF module = "top" THEN EncodeValueTop(v) ELSE EncodeValueFilters(v)

NoPack ==
    [status |-> "none", why |-> "", field |-> 0, token |-> <<>>, tokens |-> <<>>,
     data |-> <<>>]

\* A variant of PayloadLength that counts characters, not bytes.
PayloadLengthInCharacters(callback_data) == Len(callback_data)

\* The byte length pack() compares with MAX_CALLBACK_LENGTH.
PayloadLength(callback_data) == Utf8Len(callback_data)

RECURSIVE PackFieldsUnchecked(_, _, _, _)
\* A variant of the loop of pack() that never looks for the separator in a token.
PackFieldsUnchecked(c, dumped, i, result) ==
    IF i > Len(dumped) THEN [NoPack EXCEPT !.status = "joined", !.tokens = result]
    ELSE LET e == EncodeValueTop(dumped[i]) IN
         IF ~e.ok
         THEN [NoPack EXCEPT !.status = "ValueError", !.why = "can not be packed",
                             !.field = i]
         ELSE PackFieldsUnchecked(c, dumped, i + 1, Append(result, e.tok))

RECURSIVE PackFields(_, _, _, _)
\* The loop of pack(): encode each dumped value, refuse one that holds the separator.
PackFields(c, dumped, i, result) ==
    IF i > Len(dumped) THEN [NoPack EXCEPT !.status = "joined", !.tokens = result]
    ELSE LET e == _encode_value(c.module, dumped[i]) IN
         IF ~e.ok
         THEN [NoPack EXCEPT !.status = "ValueError", !.why = "can not be packed",
                             !.field = i]
         ELSE IF Contains(c.sep, e.tok)
         THEN [NoPack EXCEPT !.status = "ValueError", !.why = "separator in value",
                             !.field = i, !.token = e.tok]
         ELSE PackFields(c, dumped, i + 1, Append(result, e.tok))

\* CallbackData.pack()
Pack(c, inst) ==
    LET r == PackFields(c, ModelDumpJson(inst), 1, <<c.prefix>>) IN
    IF r.status # "joined" THEN r
    ELSE LET callback_data == Join(c.sep, r.tokens) IN
         IF PayloadLength(callback_data) > MAX_CALLBACK_LENGTH
         THEN [NoPack EXCEPT !.status = "ValueError", !.why = "too long"]
         ELSE [NoPack EXCEPT !.status = "ok", !.tokens = r.tokens, !.data = callback_data]

----------------------------------------------------------------------------
(* Construction: cls(payload), the validation library's coercion of each *)
(* keyword value to the field's declared type.                             *)

\* int from a text: an optional sign and decimal digits.
ParseInt(s) ==
    LET body == IF s # <<>> /\ Head(s) \in {"-", "+"} THEN Tail(s) ELSE s IN
    IF body # <<>> /\ \A i \in 1..Len(body) : IsDigit(body[i])
    THEN [ok |-> TRUE,
          v |-> IntV(IF Head(s) = "-" THEN 0 - DigitsToNat(body, 0) ELSE DigitsToNat(body, 0))]
    ELSE [ok |-> FALSE, v |-> NoneV]

BoolTrueTexts == {<<"1">>, <<"t">>, <<"y">>, <<"o", "n">>, <<"y", "e", "s">>, <<"t", "r", "u", "e">>}
BoolFalseTexts ==
    {<<"0">>, <<"f">>, <<"n">>, <<"n", "o">>, <<"o", "f", "f">>, <<"f", "a", "l", "s", "e">>}

\* bool from a text: one of the accepted spellings.
ParseBool(s) ==
    IF s \in BoolTrueTexts THEN [ok |-> TRUE, v |-> BoolV(TRUE)]
    ELSE IF s \in BoolFalseTexts THEN [ok |-> TRUE, v |-> BoolV(FALSE)]
    ELSE [ok |-> FALSE, v |-> NoneV]

IsHex(s) == \A i \in 1..Len(s) : s[i] \in HexChars

\* UUID from a text: 32 hexadecimal digits, or the hyphenated 8-4-4-4-12 form.
ParseUuid(s) ==
    IF Len(s) = 32 /\ IsHex(s) THEN [ok |-> TRUE, v |-> UuidV(s)]
    ELSE IF /\ Len(s) = 36
            /\ \A i \in {9, 14, 19, 24} : s[i] = "-"
            /\ IsHex(SubSeq(s, 1, 8) \o SubSeq(s, 10, 13) \o SubSeq(s, 15, 18)
                        \o SubSeq(s, 20, 23) \o SubSeq(s, 25, 36))
    THEN [ok |-> TRUE,
          v |-> UuidV(SubSeq(s, 1, 8) \o SubSeq(s, 10, 13) \o SubSeq(s, 15, 18)
                        \o SubSeq(s, 20, 23) \o SubSeq(s, 25, 36))]
    ELSE [ok |-> FALSE, v |-> NoneV]

\* One keyword value against its field: None is accepted by an Optional field
\* only; a text is coerced to the declared type.
ValidateField(f, v) ==
    IF v.kind = "none" THEN [ok |-> f.optional, v |-> NoneV]
    ELSE CASE f.type = "int" -> ParseInt(v.s)
           [] f.type = "str" -> [ok |-> TRUE, v |-> StrV(v.s)]
           [] f.type = "bool" -> ParseBool(v.s)
           [] f.type = "UUID" -> ParseUuid(v.s)
           [] OTHER -> [ok |-> FALSE, v |-> NoneV]

\* cls(payload): every field validated, a ValidationError (a ValueError) when
\* one is refused.
Construct(c, payload) ==
    LET r == [i \in 1..Len(payload) |-> ValidateField(c.fields[i], payload[i])] IN
    IF \A i \in 1..Len(payload) : r[i].ok
    THEN [ok |-> TRUE, values |-> [i \in 1..Len(payload) |-> r[i].v]]
    ELSE [ok |-> FALSE, values |-> <<>>]

----------------------------------------------------------------------------
(* Decoding: CallbackData.unpack.                                          *)

NoUnpack ==
    [status |-> "none", why |-> "", raw |-> <<>>, parts |-> <<>>, payload |-> <<>>,
     values |-> <<>>]

\* The keyword values unpack() passes on: None for an empty token of a nullable
\* field, the token otherwise.
Payload(c, parts) ==
    [i \in 1..Len(parts) |->
        IF parts[i] = <<>> /\ _check_field_is_nullable(c.module, c.fields[i])
        THEN NoneV ELSE StrV(parts[i])]

\* A variant of UnpackChecks that looks at the prefix before the arity.
UnpackChecksPrefixFirst(c, prefix, parts) ==
    IF prefix # c.prefix THEN "ValueError"
    ELSE IF Len(parts) # Len(c.fields) THEN "TypeError"
    ELSE "ok"

\* The two checks of unpack(), in the order the code makes them.
UnpackChecks(c, prefix, parts) ==
    IF Len(parts) # Len(c.fields) THEN "TypeError"
    ELSE IF prefix # c.prefix THEN "ValueError"
    ELSE "ok"

\* cls.unpack(value) for a text value
Unpack(c, value) ==
    LET split == Split(value, c.sep)
        prefix == Head(split)
        parts == Tail(split)
        check == UnpackChecks(c, prefix, parts) IN
    IF check = "TypeError"
    THEN [NoUnpack EXCEPT !.status = "TypeError", !.why = "arity", !.raw = value,
                          !.parts = parts]
    ELSE IF check = "ValueError"
    THEN [NoUnpack EXCEPT !.status = "ValueError", !.why = "bad prefix", !.raw = value,
                          !.parts = parts]
    ELSE LET payload == Payload(c, parts)
             made == Construct(c, payload) IN
         IF made.ok
         THEN [NoUnpack EXCEPT !.status = "ok", !.raw = value, !.parts = parts,
                               !.payload = payload, !.values = made.values]
         ELSE [NoUnpack EXCEPT !.status = "ValueError", !.why = "validation", !.raw = value,
                               !.parts = parts, !.payload = payload]

----------------------------------------------------------------------------
(* CallbackQueryFilter.__call__(client, query).                            *)
(* query: is_query (isinstance(query, CallbackQuery)), has_data and data   *)
(* (query.data, None when has_data is false).  rule: "none" for no rule,   *)
(* otherwise a MagicFilter whose resolve() is RuleResolve.                 *)

NoFilter == [status |-> "none", callback_data |-> <<>>, unpack |-> "none"]

NoQuery == [is_query |-> FALSE, has_data |-> FALSE, data |-> <<>>]

\* No call of the filter made yet.
NoFilterCall == [rule |-> "none", query |-> NoQuery, out |-> NoFilter]

\* self.rule.resolve(callback_data)
RuleResolve(rule, values) ==
    CASE rule = "accept" -> TRUE
      [] rule = "reject" -> FALSE
      [] rule = "first_is_5" -> values # <<>> /\ values[1] = IntV(5)
      [] OTHER -> FALSE

\* A variant of FilterCatches without ValueError.
CatchesTypeErrorOnly == {"TypeError"}

\* The exceptions __call__ catches around unpack().
FilterCatches == {"TypeError", "ValueError"}

FilterCall(c, rule, query) ==
    IF ~query.is_query \/ ~query.has_data \/ query.data = <<>>
    THEN [NoFilter EXCEPT !.status = "False"]
    ELSE LET u == Unpack(c, query.data) IN
         IF u.status # "ok"
         THEN IF u.status \in FilterCatches
              THEN [NoFilter EXCEPT !.status = "False", !.unpack = u.status]
              ELSE [NoFilter EXCEPT !.status = "raised", !.unpack = u.status]
         ELSE IF rule = "none" \/ RuleResolve(rule, u.values)
         THEN [NoFilter EXCEPT !.status = "match", !.callback_data = u.values,
                               !.unpack = "ok"]
         ELSE [NoFilter EXCEPT !.status = "False", !.unpack = "ok"]

----------------------------------------------------------------------------
(* The inputs of the codec scenario.                                       *)

Modules == {"top", "filters"}

\* class C(CallbackData, ...): no prefix, or one of three prefixes; the default
\* separator, a separator of two characters, or the empty separator.
KwargsSet ==
    {[has_prefix |-> FALSE, prefix |-> <<>>, has_sep |-> hs, sep |-> sp] :
        hs \in {FALSE}, sp \in {<<>>}}
    \cup {[has_prefix |-> TRUE, prefix |-> pr, has_sep |-> FALSE, sep |-> <<>>] :
        pr \in {<<"p">>, <<>>, <<"p", ":">>}}
    \cup {[has_prefix |-> TRUE, prefix |-> pr, has_sep |-> TRUE, sep |-> sp] :
        pr \in {<<"p">>, <<>>, <<"p", ":">>}, sp \in {<<":", ":">>, <<>>}}

FInt == FieldDecl("int", FALSE, TRUE)          \* a: int
FStr == FieldDecl("str", FALSE, TRUE)          \* a: str
FOptStr == FieldDecl("str", TRUE, TRUE)        \* a: Optional[str]
FOptStrDef == FieldDecl("str", TRUE, FALSE)    \* a: Optional[str] = None
FBool == FieldDecl("bool", FALSE, TRUE)        \* a: bool
FUuid == FieldDecl("UUID", FALSE, TRUE)        \* a: UUID
FList == FieldDecl("list", FALSE, TRUE)        \* a: list[int]

FieldDecls == {FInt, FStr, FOptStr, FOptStrDef, FBool, FUuid, FList}

\* The classes declared have no field, one field or two fields.
FieldLists ==
    {<<>>} \cup {<<f>> : f \in FieldDecls} \cup {<<f, g>> : f \in FieldDecls, g \in FieldDecls}

ShortAlphabet == {"a", ":"}

RECURSIVE TextsUpTo(_)
TextsUpTo(n) ==
    IF n = 0 THEN {<<>>}
    ELSE LET shorter == TextsUpTo(n - 1) IN
         shorter \cup {Append(t, c) : t \in shorter, c \in ShortAlphabet}

ShortTexts == TextsUpTo(MaxText)
LongTexts ==
    {Rep("a", n) : n \in (MAX_CALLBACK_LENGTH - Slack)..MAX_CALLBACK_LENGTH}
    \cup {Rep("e_acute", n) : n \in {(MAX_CALLBACK_LENGTH \div 2) - 1, MAX_CALLBACK_LENGTH \div 2}}
Texts == ShortTexts \cup LongTexts

Uuids == {UuidV(Rep("a", 32)), UuidV(Rep("0", 8) \o Rep("1", 4) \o Rep("f", 20))}

\* The values a field of declaration f can hold.
Values(f) ==
    (CASE f.type = "int" -> {IntV(0), IntV(5), IntV(12), IntV(0 - 3)}
       [] f.type = "str" -> {StrV(t) : t \in Texts}
       [] f.type = "bool" -> {BoolV(TRUE), BoolV(FALSE)}
       [] f.type = "UUID" -> Uuids
       [] OTHER -> {ListV})
    \cup (IF f.optional THEN {NoneV} ELSE {})

Instances(fields) ==
    IF Len(fields) = 0 THEN {<<>>}
    ELSE IF Len(fields) = 1 THEN {<<v>> : v \in Values(fields[1])}
    ELSE {<<v, w>> : v \in Values(fields[1]), w \in Values(fields[2])}

\* Payloads that arrive without having been packed from the class.
RawInputs ==
    {<<"p", ":", "5", ":">>, <<"w", ":", "5", ":">>, <<"p", ":", "5">>, <<"w", ":", "5">>,
     <<"p">>, <<"p", ":", "a", ":", "1">>, <<"p", ":", ":", "5", ":", ":">>,
     <<":", "5", ":">>, <<"p", ":", "5", ":", "a", ":", "a">>}

Rules == {"none", "accept", "reject", "first_is_5"}

Queries ==
    {[is_query |-> TRUE, has_data |-> TRUE, data |-> r] : r \in RawInputs \cup {<<>>}}
    \cup {[is_query |-> TRUE, has_data |-> FALSE, data |-> <<>>],
          [is_query |-> FALSE, has_data |-> FALSE, data |-> <<>>]}

----------------------------------------------------------------------------
(* The codec scenario: declare a class, then either build an instance,     *)
(* pack it and hand the payload to unpack or to the filter, or hand a raw  *)
(* payload to unpack or to the filter.                                     *)

InitCodec ==
    /\ cls = NoClass
    /\ x = <<>>
    /\ packed = NoPack
    /\ unpacked = NoUnpack
    /\ fres = NoFilterCall
    /\ pc = "start"
    /\ markup = <<>>
    /\ other = [button_type |-> "InlineKeyboardButton", markup |-> <<>>]
    /\ nextId = 1
    /\ kerr = ""
    /\ kcall = ""
    /\ kargs = NoArgs
    /\ kprev = <<>>
    /\ ops = 0
    /\ kpc = "none"
    /\ heap = <<>>
    /\ self_markup = 0
    /\ their_markup = 0
    /\ arg = 0
    /\ exported = 0
    /\ ocall = ""
    /\ oprev = NoGrids
    /\ nextText = 1
    /\ oops = 0
    /\ sender = NewSender
    /\ workers = <<>>
    /\ lock = 0
    /\ lockq = <<>>
    /\ cpc = [c \in Callers |-> "idle"]
    /\ me = TRUE
    /\ sent = 0
    /\ calls = 0
    /\ slast = NoCall
    /\ tasks = <<RootTask>>
    /\ lcall = NoLocaleCall
    /\ lops = 0

\* class C(CallbackData, prefix=..., sep=...): ...
DeclareClass ==
    /\ pc = "start"
    /\ \E m \in Modules, kw \in KwargsSet, fields \in FieldLists :
          cls' = __init_subclass__(m, kw, fields)
    /\ pc' = IF cls'.declared THEN "declared" ELSE "decl_error"
    /\ UNCHANGED <<x, packed, unpacked, fres>>
    /\ UNCHANGED <<kbVars, ownVars, senderVars, localeVars>>

\* x = C(...)
NewInstance ==
    /\ pc = "declared"
    /\ cls.declared
    /\ \E inst \in Instances(cls.fields) : x' = inst
    /\ pc' = "built"
    /\ UNCHANGED <<cls, packed, unpacked, fres>>
    /\ UNCHANGED <<kbVars, ownVars, senderVars, localeVars>>

\* x.pack()
DoPack ==
    /\ pc = "built"
    /\ packed' = Pack(cls, x)
    /\ pc' = "packed"
    /\ UNCHANGED <<cls, x, unpacked, fres>>
    /\ UNCHANGED <<kbVars, ownVars, senderVars, localeVars>>

\* C.unpack(x.pack())
UnpackPacked ==
    /\ pc = "packed"
    /\ packed.status = "ok"
    /\ unpacked' = Unpack(cls, packed.data)
    /\ pc' = "unpacked"
    /\ UNCHANGED <<cls, x, packed, fres>>
    /\ UNCHANGED <<kbVars, ownVars, senderVars, localeVars>>

\* C.unpack(raw)
UnpackRaw ==
    /\ pc = "declared"
    /\ \E raw \in RawInputs : unpacked' = Unpack(cls, raw)
    /\ pc' = "unpacked"
    /\ UNCHANGED <<cls, x, packed, fres>>
    /\ UNCHANGED <<kbVars, ownVars, senderVars, localeVars>>

\* await C.filter(rule)(client, query) for a query carrying x.pack()
FilterPacked ==
    /\ pc = "packed"
    /\ packed.status = "ok"
    /\ \E rule \in Rules :
          LET query == [is_query |-> TRUE, has_data |-> TRUE, data |-> packed.data] IN
          fres' = [rule |-> rule, query |-> query, out |-> FilterCall(cls, rule, query)]
    /\ pc' = "filtered"
    /\ UNCHANGED <<cls, x, packed, unpacked>>
    /\ UNCHANGED <<kbVars, ownVars, senderVars, localeVars>>

\* await C.filter(rule)(client, query) for any other query
FilterRaw ==
    /\ pc = "declared"
    /\ \E rule \in Rules, query \in Queries :
          fres' = [rule |-> rule, query |-> query, out |-> FilterCall(cls, rule, query)]
    /\ pc' = "filtered"
    /\ UNCHANGED <<cls, x, packed, unpacked>>
    /\ UNCHANGED <<kbVars, ownVars, senderVars, localeVars>>

NextCodec ==
    \/ DeclareClass
    \/ NewInstance
    \/ DoPack
    \/ UnpackPacked
    \/ UnpackRaw
    \/ FilterPacked
    \/ FilterRaw

SpecCodec == InitCodec /\ [][NextCodec]_vars

----------------------------------------------------------------------------
(* InlineKeyboardBuilder.  A button is a record: id is the object's        *)
(* identity, type its class.  A markup is a sequence of rows, a row a      *)
(* sequence of buttons.                                                    *)

max_width == 8
min_width == 1
max_buttons == 100

DeclaredType == "InlineKeyboardButton"

Button(id, type) == [id |-> id, type |-> type]

\* n buttons of one class, with identities first, first + 1, ...
MakeButtons(first, n, type) == [i \in 1..n |-> Button(first + i - 1, type)]

RECURSIVE Flatten(_)
\* chain.from_iterable(rows): the rows' buttons in order (concatenated by halves).
Flatten(rows) ==
    IF rows = <<>> THEN <<>>
    ELSE IF Len(rows) = 1 THEN rows[1]
    ELSE Flatten(SubSeq(rows, 1, Len(rows) \div 2))
            \o Flatten(SubSeq(rows, (Len(rows) \div 2) + 1, Len(rows)))

\* sum(len(row) for row in markup)
CountButtons(rows) == Len(Flatten(rows))

\* _validate_button: isinstance(button, self._button_type)
ValidateButton(button_type, button) == button.type = button_type

\* _validate_buttons: all(map(self._validate_button, buttons)).  _validate_button
\* returns None, so all() stops after the first button.
ValidateButtons(button_type, buttons) ==
    buttons = <<>> \/ ValidateButton(button_type, buttons[1])

\* _validate_row: "" when the row passes, the error otherwise.
ValidateRow(button_type, row) ==
    IF Len(row) > max_width THEN "row too long"
    ELSE IF ~ValidateButtons(button_type, row) THEN "wrong button type"
    ELSE ""

\* _validate_markup: "" when the markup passes, the first error otherwise.
ValidateMarkup(button_type, m) ==
    IF CountButtons(m) > max_buttons THEN "too much buttons"
    ELSE IF \E r \in 1..Len(m) : ValidateRow(button_type, m[r]) # ""
    THEN ValidateRow(button_type,
                     m[CHOOSE r \in 1..Len(m) :
                          /\ ValidateRow(button_type, m[r]) # ""
                          /\ \A q \in 1..(r - 1) : ValidateRow(button_type, m[q]) = ""])
    ELSE ""

\* A size is a record: kind "int" with its value n, or kind "str" for a size that
\* is no int.
IntSize(n) == [kind |-> "int", n |-> n]
NotIntSize == [kind |-> "str", n |-> 0]

\* _validate_size: an int in range(min_width, max_width + 1)
ValidateSize(size) ==
    IF size.kind # "int" THEN "only int sizes"
    ELSE IF ~(size.n \in min_width..max_width) THEN "row size not allowed"
    ELSE ""

\* [buttons[pos : pos + width] for pos in range(0, len(buttons), width)], width > 0
Chunks(buttons, width) ==
    [k \in 1..((Len(buttons) + width - 1) \div width) |->
        SubSeq(buttons, (k - 1) * width + 1,
               IF k * width < Len(buttons) THEN k * width ELSE Len(buttons))]

\* A variant of add() that never fills the last row.
AddAlwaysNewRows(m, buttons) == m \o Chunks(buttons, max_width)

\* add(*buttons): the markup after the call.
Add(m, buttons) ==
    IF m # <<>> /\ Len(m[Len(m)]) < max_width
    THEN LET last_row == m[Len(m)]
             pos == max_width - Len(last_row)
             head == SubSeq(buttons, 1, IF pos < Len(buttons) THEN pos ELSE Len(buttons))
             rest == SubSeq(buttons, pos + 1, Len(buttons)) IN
         SubSeq(m, 1, Len(m) - 1) \o <<last_row \o head>> \o Chunks(rest, max_width)
    ELSE m \o Chunks(buttons, max_width)

\* row(*buttons, width=width): the error raised ("" for none); has_width is false
\* when width is left out.
RowError(button_type, buttons, has_width, width) ==
    LET w == IF has_width THEN width ELSE IntSize(max_width) IN
    IF ValidateSize(w) # "" THEN ValidateSize(w)
    ELSE IF ~ValidateButtons(button_type, buttons) THEN "wrong button type"
    ELSE ""

\* A variant of row() that fills the last row first, as add() does.
RowFillsLastRow(m, buttons, has_width, width) == Add(m, buttons)

\* row(*buttons, width=width): the markup after a call that raises nothing.
Row(m, buttons, has_width, width) ==
    m \o Chunks(buttons, IF has_width THEN width.n ELSE max_width)

\* The j-th value of sizes_iter: cycle(sizes), or sizes followed by its last
\* element for ever.
SizeAt(sizes, repeat, j) ==
    IF repeat THEN sizes[((j - 1) % Len(sizes)) + 1]
    ELSE IF j <= Len(sizes) THEN sizes[j]
    ELSE sizes[Len(sizes)]

\* The row sizes adjust() works with: nothing checks them.
AdjustSizes(sizes) == IF sizes = <<>> THEN <<max_width>> ELSE sizes

RECURSIVE AdjustLoop(_, _, _, _, _, _)
\* The loop of adjust() over the buttons i..hi, from the loop's state st (the
\* current row and the markup so far): the iterator is advanced once per button,
\* and a new row is begun when the current row has reached the size it gave.
AdjustLoop(buttons, i, hi, sizes, repeat, st) ==
    IF i > hi THEN st
    ELSE IF Len(st.row) >= SizeAt(sizes, repeat, i)
    THEN AdjustLoop(buttons, i + 1, hi, sizes, repeat,
                    [row |-> <<buttons[i]>>, markup |-> Append(st.markup, st.row)])
    ELSE AdjustLoop(buttons, i + 1, hi, sizes, repeat,
                    [row |-> Append(st.row, buttons[i]), markup |-> st.markup])

RECURSIVE AdjustBlocks(_, _, _, _, _)
\* The same loop over all the buttons from lo on, gone through sixteen at a time.
AdjustBlocks(buttons, lo, sizes, repeat, st) ==
    IF lo > Len(buttons) THEN st
    ELSE AdjustBlocks(buttons, lo + 16, sizes, repeat,
                      AdjustLoop(buttons, lo,
                                 IF lo + 15 < Len(buttons) THEN lo + 15 ELSE Len(buttons),
                                 sizes, repeat, st))

\* A variant of adjust() that forgets the row left over when the loop ends.
AdjustWithoutLastRow(m, sizes, repeat) ==
    AdjustBlocks(Flatten(m), 1, AdjustSizes(sizes), repeat,
                 [row |-> <<>>, markup |-> <<>>]).markup

\* adjust(*sizes, repeat=repeat): the markup after the call.  After the loop a
\* row that is not empty is appended.
Adjust(m, sizes, repeat) ==
    LET st == AdjustBlocks(Flatten(m), 1, AdjustSizes(sizes), repeat,
                           [row |-> <<>>, markup |-> <<>>]) IN
    IF st.row # <<>> THEN Append(st.markup, st.row) ELSE st.markup

\* attach(builder): the error raised ("" for none).
AttachError(button_type, builder) ==
    IF builder.button_type # button_type THEN "button types differ" ELSE ""

\* A variant of attach() that puts the other builder's rows first.
AttachInFront(m, builder) == builder.markup \o m

\* attach(builder): the markup after a call that raises nothing.
Attach(m, builder) == m \o builder.markup

\* attach(builder): the other builder after the call.  attach() reads it through
\* export(), a deep copy, and assigns nothing to it.
AttachedBuilder(builder) == builder

----------------------------------------------------------------------------
(* The inputs of the keyboard scenario.                                    *)

\* The markup argument of InlineKeyboardBuilder(markup=...) and from_markup().
CtorMarkups ==
    {<<>>,
     <<MakeButtons(501, 3, DeclaredType)>>,
     <<MakeButtons(501, 9, DeclaredType)>>,
     <<MakeButtons(501, 1, "KeyboardButton")>>,
     <<<<Button(501, DeclaredType), Button(502, "KeyboardButton")>>>>,
     [r \in 1..12 |-> MakeButtons(501 + 8 * (r - 1), 8, DeclaredType)],
     [r \in 1..13 |-> MakeButtons(501 + 8 * (r - 1), 8, DeclaredType)]}

\* The builders handed to attach(): each was filled by add().
OtherBuilders ==
    {[button_type |-> DeclaredType, markup |-> <<>>],
     [button_type |-> DeclaredType, markup |-> <<MakeButtons(901, 3, DeclaredType)>>],
     [button_type |-> "KeyboardButton", markup |-> <<MakeButtons(901, 2, "KeyboardButton")>>]}

\* The buttons of one call: n new buttons, all of the declared class ("ok"), or
\* with the first ("bad_first") or the last ("bad_last") of another class.
Batch(first, n, kind) ==
    [i \in 1..n |->
        Button(first + i - 1,
               IF (kind = "bad_first" /\ i = 1) \/ (kind = "bad_last" /\ i = n)
               THEN "KeyboardButton" ELSE DeclaredType)]

BatchKinds == {"ok", "bad_first", "bad_last"}
AddCounts == {1, 4, 9}
RowCounts == {2, 9}
Widths == {IntSize(0), IntSize(3), IntSize(9), NotIntSize}
SizeValues == {0, 2, 3, 9}
SizeLists ==
    {<<>>} \cup {<<a>> : a \in SizeValues} \cup {<<2, 3>>, <<3, 2>>, <<0, 2>>, <<9, 2>>}

\* The callback_data keyword of button(): a class of one text field and two
\* instances of it, one whose payload is too long.
KbClass ==
    __init_subclass__("filters",
                      [has_prefix |-> TRUE, prefix |-> <<"p">>, has_sep |-> FALSE, sep |-> <<>>],
                      <<FStr>>)
ButtonCallbacks == {<<>>, <<StrV(<<"a">>)>>, <<StrV(Rep("a", MAX_CALLBACK_LENGTH))>>}

----------------------------------------------------------------------------
(* The keyboard scenario: construct a builder, then call add, row, adjust, *)
(* button and attach on it.                                                *)

InitKeyboard ==
    /\ cls = NoClass
    /\ x = <<>>
    /\ packed = NoPack
    /\ unpacked = NoUnpack
    /\ fres = NoFilterCall
    /\ pc = "start"
    /\ markup = <<>>
    /\ other = [button_type |-> DeclaredType, markup |-> <<>>]
    /\ nextId = 1
    /\ kerr = ""
    /\ kcall = ""
    /\ kargs = NoArgs
    /\ kprev = <<>>
    /\ ops = 0
    /\ kpc = "none"
    /\ heap = <<>>
    /\ self_markup = 0
    /\ their_markup = 0
    /\ arg = 0
    /\ exported = 0
    /\ ocall = ""
    /\ oprev = NoGrids
    /\ nextText = 1
    /\ oops = 0
    /\ sender = NewSender
    /\ workers = <<>>
    /\ lock = 0
    /\ lockq = <<>>
    /\ cpc = [c \in Callers |-> "idle"]
    /\ me = TRUE
    /\ sent = 0
    /\ calls = 0
    /\ slast = NoCall
    /\ tasks = <<RootTask>>
    /\ lcall = NoLocaleCall
    /\ lops = 0

\* InlineKeyboardBuilder(): self._markup = markup or []; a markup that is not
\* empty is validated, and the constructor raises when it does not pass.
KbNew ==
    /\ kpc = "none"
    /\ \E m \in CtorMarkups :
          LET e == IF m # <<>> THEN ValidateMarkup(DeclaredType, m) ELSE "" IN
          /\ kargs' = [NoArgs EXCEPT !.markup = m]
          /\ kerr' = e
          /\ markup' = IF e = "" THEN m ELSE <<>>
          /\ kpc' = IF e = "" THEN "ready" ELSE "failed"
    /\ kcall' = "new"
    /\ kprev' = <<>>
    /\ UNCHANGED <<other, nextId, ops>>
    /\ UNCHANGED <<codecVars, ownVars, senderVars, localeVars>>

\* builder.add(*buttons)
KbAdd ==
    /\ kpc = "ready"
    /\ ops < MaxOps
    /\ \E n \in AddCounts, kind \in BatchKinds :
          /\ kargs' = [NoArgs EXCEPT !.buttons = Batch(nextId, n, kind)]
          /\ markup' = Add(markup, Batch(nextId, n, kind))
          /\ nextId' = nextId + n
    /\ kerr' = ""
    /\ kcall' = "add"
    /\ kprev' = markup
    /\ ops' = ops + 1
    /\ UNCHANGED <<other, kpc>>
    /\ UNCHANGED <<codecVars, ownVars, senderVars, localeVars>>

\* builder.row(*buttons, width=width)
KbRow ==
    /\ kpc = "ready"
    /\ ops < MaxOps
    /\ \E n \in RowCounts, kind \in BatchKinds, has_width \in BOOLEAN :
       \E width \in (IF has_width THEN Widths ELSE {IntSize(max_width)}) :
          LET buttons == Batch(nextId, n, kind)
              e == RowError(DeclaredType, buttons, has_width, width) IN
          /\ kargs' = [NoArgs EXCEPT !.buttons = buttons, !.has_width = has_width,
                                      !.width = width]
          /\ kerr' = e
          /\ markup' = IF e = "" THEN Row(markup, buttons, has_width, width) ELSE markup
          /\ nextId' = IF e = "" THEN nextId + n ELSE nextId
    /\ kcall' = "row"
    /\ kprev' = markup
    /\ ops' = ops + 1
    /\ UNCHANGED <<other, kpc>>
    /\ UNCHANGED <<codecVars, ownVars, senderVars, localeVars>>

\* builder.adjust(*sizes, repeat=repeat)
KbAdjust ==
    /\ kpc = "ready"
    /\ ops < MaxOps
    /\ \E sizes \in SizeLists, repeat \in BOOLEAN :
          /\ kargs' = [NoArgs EXCEPT !.sizes = sizes, !.repeat = repeat]
          /\ markup' = Adjust(markup, sizes, repeat)
    /\ kerr' = ""
    /\ kcall' = "adjust"
    /\ kprev' = markup
    /\ ops' = ops + 1
    /\ UNCHANGED <<other, nextId, kpc>>
    /\ UNCHANGED <<codecVars, ownVars, senderVars, localeVars>>

\* builder.button(callback_data=...): an instance of CallbackData is packed first
\* (pack() may raise), then the button is made and added.
KbButton ==
    /\ kpc = "ready"
    /\ ops < MaxOps
    /\ \E cb \in ButtonCallbacks :
          LET p == IF cb = <<>> THEN [NoPack EXCEPT !.status = "ok"] ELSE Pack(KbClass, cb) IN
          /\ kargs' = [NoArgs EXCEPT !.buttons = IF p.status = "ok"
                                                  THEN <<Button(nextId, DeclaredType)>>
                                                  ELSE <<>>]
          /\ kerr' = IF p.status = "ok" THEN "" ELSE p.why
          /\ markup' = IF p.status = "ok"
                       THEN Add(markup, <<Button(nextId, DeclaredType)>>)
                       ELSE markup
          /\ nextId' = IF p.status = "ok" THEN nextId + 1 ELSE nextId
    /\ kcall' = "button"
    /\ kprev' = markup
    /\ ops' = ops + 1
    /\ UNCHANGED <<other, kpc>>
    /\ UNCHANGED <<codecVars, ownVars, senderVars, localeVars>>

\* builder.attach(other), for a second builder other
KbAttach ==
    /\ kpc = "ready"
    /\ ops < MaxOps
    /\ \E b \in OtherBuilders :
          LET e == AttachError(DeclaredType, b) IN
          /\ other' = AttachedBuilder(b)
          /\ kargs' = [NoArgs EXCEPT !.builder = b]
          /\ kerr' = e
          /\ markup' = IF e = "" THEN Attach(markup, b) ELSE markup
    /\ kcall' = "attach"
    /\ kprev' = markup
    /\ ops' = ops + 1
    /\ UNCHANGED <<nextId, kpc>>
    /\ UNCHANGED <<codecVars, ownVars, senderVars, localeVars>>

NextKeyboard ==
    \/ KbNew
    \/ KbAdd
    \/ KbRow
    \/ KbAdjust
    \/ KbButton
    \/ KbAttach

SpecKeyboard == InitKeyboard /\ [][NextKeyboard]_vars

----------------------------------------------------------------------------
(* Ownership of the grid.  The lists and buttons are objects held by       *)
(* reference: heap[r] is the object of reference r, a list (items holds    *)
(* the references of its elements) or a button.  Assigning to an object    *)
(* is seen by everyone who holds its reference.                            *)

ListObj(items) == [kind |-> "list", items |-> items, type |-> "", text |-> 0]
ButtonObj(type, text) == [kind |-> "button", items |-> <<>>, type |-> type, text |-> text]

\* The rows of the grid g, each the sequence of the references of its buttons.
RowRefs(h, g) == [r \in 1..Len(h[g].items) |-> h[h[g].items[r]].items]

\* The grid g as a value: rows of buttons.
GridValue(h, g) ==
    IF g = 0 THEN <<>>
    ELSE [r \in 1..Len(h[g].items) |->
            [j \in 1..Len(h[h[g].items[r]].items) |->
                Button(h[h[h[g].items[r]].items[j]].text,
                       h[h[h[g].items[r]].items[j]].type)]]

\* The objects of the grid g: the list, its rows and their buttons.
Reach(h, g) ==
    IF g = 0 THEN {}
    ELSE {g} \cup {h[g].items[r] : r \in 1..Len(h[g].items)}
             \cup UNION {{h[h[g].items[r]].items[j] : j \in 1..Len(h[h[g].items[r]].items)} :
                            r \in 1..Len(h[g].items)}

\* New list objects, one for each of rows: the heap with them and their references.
AllocLists(h, rows) ==
    [heap |-> h \o [r \in 1..Len(rows) |-> ListObj(rows[r])],
     refs |-> [r \in 1..Len(rows) |-> Len(h) + r]]

\* n new buttons of the caller, with texts text, text + 1, ...
AllocButtons(h, n, text) ==
    [heap |-> h \o [i \in 1..n |-> ButtonObj(DeclaredType, text + i - 1)],
     refs |-> [i \in 1..n |-> Len(h) + i]]

\* deepcopy(grid): new buttons, new rows and a new list with the same values.
DeepCopy(h, g) ==
    LET rows == RowRefs(h, g)
        flat == Flatten(rows)
        base == Len(h)
        off(r) == Len(Flatten(SubSeq(rows, 1, r - 1)))
        h1 == h \o [j \in 1..Len(flat) |-> h[flat[j]]]
        a == AllocLists(h1, [r \in 1..Len(rows) |->
                                [j \in 1..Len(rows[r]) |-> base + off(r) + j]]) IN
    [heap |-> Append(a.heap, ListObj(a.refs)), ref |-> Len(a.heap) + 1]

\* A variant of export() that returns the builder's own list.
ExportOwnList(h, g) == [heap |-> h, ref |-> g]

\* export(): return deepcopy(self._markup)
Export(h, g) == DeepCopy(h, g)

\* __init__(markup=m): self._markup = markup or [].  m = 0 stands for no markup;
\* an empty list is falsy as well, and a new list is made.
OwnInit(h, m) ==
    IF m # 0 /\ h[m].items # <<>> THEN [heap |-> h, self |-> m]
    ELSE [heap |-> Append(h, ListObj(<<>>)), self |-> Len(h) + 1]

\* add(*buttons) on the objects: the work is done on export()'s copy, whose last
\* row is extended in place and which receives new lists; self._markup becomes
\* the copy.
OwnAdd(h, self, buttons) ==
    LET ex == Export(h, self)
        m == ex.ref
        rows == ex.heap[m].items
        p == Len(rows)
        room == p > 0 /\ Len(ex.heap[rows[p]].items) < max_width
        pos == max_width - Len(ex.heap[rows[p]].items)
        head == IF room
                THEN SubSeq(buttons, 1, IF pos < Len(buttons) THEN pos ELSE Len(buttons))
                ELSE <<>>
        rest == IF room THEN SubSeq(buttons, pos + 1, Len(buttons)) ELSE buttons
        h2 == IF room THEN [ex.heap EXCEPT ![rows[p]].items = @ \o head] ELSE ex.heap
        a == AllocLists(h2, Chunks(rest, max_width)) IN
    [heap |-> [a.heap EXCEPT ![m].items = @ \o a.refs], self |-> m]

\* row(*buttons, width=width) with a valid width: self._markup.extend(new lists).
OwnRow(h, self, buttons, width) ==
    LET a == AllocLists(h, Chunks(buttons, width)) IN
    [heap |-> [a.heap EXCEPT ![self].items = @ \o a.refs], self |-> self]

\* adjust(*sizes, repeat=repeat): the buttons come from self.buttons, that is from
\* export(); the rows and the list are new; self._markup becomes the new list.
OwnAdjust(h, self, sizes, repeat) ==
    LET ex == Export(h, self)
        a == AllocLists(ex.heap, Adjust(RowRefs(ex.heap, ex.ref), sizes, repeat)) IN
    [heap |-> Append(a.heap, ListObj(a.refs)), self |-> Len(a.heap) + 1]

\* attach(builder): self._markup.extend(builder.export())
OwnAttach(h, self, their) ==
    LET ex == Export(h, their) IN
    [heap |-> [ex.heap EXCEPT ![self].items = @ \o ex.heap[ex.ref].items], self |-> self]

\* What the caller does to a list g it holds: append a row of one new button,
\* remove the first row, append a new button to the first row, replace the
\* first button of the first row, or assign to the text of that button.
MutationKinds == {"append_row", "remove_row", "append_button", "replace_button", "edit_button"}

Mutate(h, g, kind, text) ==
    LET b == AllocButtons(h, 1, text)
        rows == h[g].items IN
    CASE kind = "append_row" ->
            LET a == AllocLists(b.heap, <<b.refs>>) IN
            [a.heap EXCEPT ![g].items = @ \o a.refs]
      [] kind = "remove_row" -> [h EXCEPT ![g].items = Tail(@)]
      [] kind = "append_button" -> [b.heap EXCEPT ![rows[1]].items = @ \o b.refs]
      [] kind = "replace_button" -> [b.heap EXCEPT ![rows[1]].items[1] = b.refs[1]]
      [] OTHER -> [h EXCEPT ![h[rows[1]].items[1]].text = 0]

\* Whether the caller can do it: all but append_row need a first row, the last
\* two a first button.
CanMutate(h, g, kind) ==
    CASE kind = "append_row" -> TRUE
      [] kind \in {"remove_row", "append_button"} -> h[g].items # <<>>
      [] OTHER -> h[g].items # <<>> /\ h[h[g].items[1]].items # <<>>

\* The values of the grids, kept to compare them with those after a step.
Grids(h, s, a, e, t) ==
    [self |-> GridValue(h, s), arg |-> GridValue(h, a), exported |-> GridValue(h, e),
     their |-> GridValue(h, t)]

----------------------------------------------------------------------------
(* The ownership scenario: the caller holds a list of one row of two       *)
(* buttons; a second builder holds a grid of one row of one button.  A     *)
(* builder is constructed, with or without the caller's list; then come    *)
(* calls of add, row, adjust, attach and export, and the caller's changes  *)
(* to the list export() returned.                                          *)

OwnAddCounts == {1, 8}
OwnSizeLists == {<<>>, <<1>>, <<2, 1>>}

InitOwner ==
    /\ cls = NoClass
    /\ x = <<>>
    /\ packed = NoPack
    /\ unpacked = NoUnpack
    /\ fres = NoFilterCall
    /\ pc = "start"
    /\ markup = <<>>
    /\ other = [button_type |-> DeclaredType, markup |-> <<>>]
    /\ nextId = 1
    /\ kerr = ""
    /\ kcall = ""
    /\ kargs = NoArgs
    /\ kprev = <<>>
    /\ ops = 0
    /\ kpc = "none"
    /\ heap = <<ButtonObj(DeclaredType, 801), ListObj(<<1>>), ListObj(<<2>>),
                ButtonObj(DeclaredType, 501), ButtonObj(DeclaredType, 502),
                ListObj(<<4, 5>>), ListObj(<<6>>)>>
    /\ self_markup = 0
    /\ their_markup = 3
    /\ arg = 0
    /\ exported = 0
    /\ ocall = ""
    /\ oprev = NoGrids
    /\ nextText = 1
    /\ oops = 0
    /\ sender = NewSender
    /\ workers = <<>>
    /\ lock = 0
    /\ lockq = <<>>
    /\ cpc = [c \in Callers |-> "idle"]
    /\ me = TRUE
    /\ sent = 0
    /\ calls = 0
    /\ slast = NoCall
    /\ tasks = <<RootTask>>
    /\ lcall = NoLocaleCall
    /\ lops = 0

\* InlineKeyboardBuilder() or InlineKeyboardBuilder(markup=the caller's list)
OwnNew ==
    /\ self_markup = 0
    /\ \E m \in {0, 7} :
          LET e == IF m # 0 /\ heap[m].items # <<>>
                   THEN ValidateMarkup(DeclaredType, GridValue(heap, m)) ELSE ""
              r == OwnInit(heap, m) IN
          /\ e = ""
          /\ heap' = r.heap
          /\ self_markup' = r.self
          /\ arg' = m
    /\ ocall' = "new"
    /\ oprev' = Grids(heap, 0, 7, 0, their_markup)
    /\ UNCHANGED <<their_markup, exported, nextText, oops>>
    /\ UNCHANGED <<codecVars, kbVars, senderVars, localeVars>>

\* builder.export()
OwnExport ==
    /\ self_markup # 0
    /\ oops < MaxOwnOps
    /\ LET ex == Export(heap, self_markup) IN
          /\ heap' = ex.heap
          /\ exported' = ex.ref
    /\ ocall' = "export"
    /\ oprev' = Grids(heap, self_markup, arg, exported, their_markup)
    /\ oops' = oops + 1
    /\ UNCHANGED <<self_markup, their_markup, arg, nextText>>
    /\ UNCHANGED <<codecVars, kbVars, senderVars, localeVars>>

\* builder.add(*buttons) with new buttons of the caller
OwnDoAdd ==
    /\ self_markup # 0
    /\ oops < MaxOwnOps
    /\ \E n \in OwnAddCounts :
          LET b == AllocButtons(heap, n, nextText)
              r == OwnAdd(b.heap, self_markup, b.refs) IN
          /\ heap' = r.heap
          /\ self_markup' = r.self
          /\ nextText' = nextText + n
    /\ ocall' = "add"
    /\ oprev' = Grids(heap, self_markup, arg, exported, their_markup)
    /\ oops' = oops + 1
    /\ UNCHANGED <<their_markup, arg, exported>>
    /\ UNCHANGED <<codecVars, kbVars, senderVars, localeVars>>

\* builder.row(b1, b2, width=1) with new buttons of the caller
OwnDoRow ==
    /\ self_markup # 0
    /\ oops < MaxOwnOps
    /\ LET b == AllocButtons(heap, 2, nextText)
           e == RowError(DeclaredType,
                         [i \in 1..2 |-> Button(nextText + i - 1, DeclaredType)],
                         TRUE, IntSize(1))
           r == OwnRow(b.heap, self_markup, b.refs, 1) IN
          /\ e = ""
          /\ heap' = r.heap
          /\ self_markup' = r.self
    /\ nextText' = nextText + 2
    /\ ocall' = "row"
    /\ oprev' = Grids(heap, self_markup, arg, exported, their_markup)
    /\ oops' = oops + 1
    /\ UNCHANGED <<their_markup, arg, exported>>
    /\ UNCHANGED <<codecVars, kbVars, senderVars, localeVars>>

\* builder.adjust(*sizes)
OwnDoAdjust ==
    /\ self_markup # 0
    /\ oops < MaxOwnOps
    /\ \E sizes \in OwnSizeLists :
          LET r == OwnAdjust(heap, self_markup, sizes, FALSE) IN
          /\ heap' = r.heap
          /\ self_markup' = r.self
    /\ ocall' = "adjust"
    /\ oprev' = Grids(heap, self_markup, arg, exported, their_markup)
    /\ oops' = oops + 1
    /\ UNCHANGED <<their_markup, arg, exported, nextText>>
    /\ UNCHANGED <<codecVars, kbVars, senderVars, localeVars>>

\* builder.attach(the second builder); both have the same button type
OwnDoAttach ==
    /\ self_markup # 0
    /\ oops < MaxOwnOps
    /\ AttachError(DeclaredType, [button_type |-> DeclaredType,
                                  markup |-> GridValue(heap, their_markup)]) = ""
    /\ LET r == OwnAttach(heap, self_markup, their_markup) IN
          /\ heap' = r.heap
          /\ self_markup' = r.self
    /\ ocall' = "attach"
    /\ oprev' = Grids(heap, self_markup, arg, exported, their_markup)
    /\ oops' = oops + 1
    /\ UNCHANGED <<their_markup, arg, exported, nextText>>
    /\ UNCHANGED <<codecVars, kbVars, senderVars, localeVars>>

\* The caller changes the list export() returned.
CallerMutatesExported ==
    /\ exported # 0
    /\ oops < MaxOwnOps
    /\ \E kind \in MutationKinds :
          /\ CanMutate(heap, exported, kind)
          /\ heap' = Mutate(heap, exported, kind, nextText)
    /\ nextText' = nextText + 1
    /\ ocall' = "mutate_exported"
    /\ oprev' = Grids(heap, self_markup, arg, exported, their_markup)
    /\ oops' = oops + 1
    /\ UNCHANGED <<self_markup, their_markup, arg, exported>>
    /\ UNCHANGED <<codecVars, kbVars, senderVars, localeVars>>

NextOwner ==
    \/ OwnNew
    \/ OwnExport
    \/ OwnDoAdd
    \/ OwnDoRow
    \/ OwnDoAdjust
    \/ OwnDoAttach
    \/ CallerMutatesExported

SpecOwner == InitOwner /\ [][NextOwner]_vars

----------------------------------------------------------------------------
(* ChatActionSender.  The tasks of one event loop take turns: a step of    *)
(* the model is the code a task runs from one await to the next.           *)
(* A worker is a record: pc is its position in _worker: "created" (not     *)
(* run yet), "initial_wait" and "waiting" (in self._wait), "sending" (in   *)
(* send_chat_action), "done" (left the loop), "raised" (send_chat_action   *)
(* raised), "raised_before_try" (the bot was not started).                 *)

WorkerEnded(w) == w.pc \in {"done", "raised", "raised_before_try"}

\* running: bool(self._task)
Running(sn) == sn.task # 0

\* A variant of the body of _run that does not look at running.
RunBodyUnchecked(sn, ws) ==
    [sender |-> [sn EXCEPT !.close_event = FALSE, !.closed_event = FALSE,
                           !.task = Len(ws) + 1],
     workers |-> Append(ws, NewWorker), result |-> "started"]

\* The body of _run under the lock: both events are cleared, then running is
\* looked at, then the worker task is created.
RunBody(sn, ws) ==
    LET cleared == [sn EXCEPT !.close_event = FALSE, !.closed_event = FALSE] IN
    IF Running(cleared)
    THEN [sender |-> cleared, workers |-> ws, result |-> "Already running"]
    ELSE [sender |-> [cleared EXCEPT !.task = Len(ws) + 1],
          workers |-> Append(ws, NewWorker), result |-> "started"]

\* A variant of the body of _stop that sets _close_event and does not wait for
\* _closed_event.
StopBodyNoWait(sn) ==
    IF ~Running(sn) THEN [sender |-> sn, result |-> "noop", waits |-> FALSE]
    ELSE [sender |-> [sn EXCEPT !.close_event = TRUE, !.task = 0], result |-> "stopped",
          waits |-> FALSE]

\* The body of _stop under the lock, up to where it has to wait: waits is true
\* when it set _close_event and _closed_event is not set yet (Event.wait() returns
\* at once when the event is set).
StopBody(sn) ==
    IF ~Running(sn) THEN [sender |-> sn, result |-> "noop", waits |-> FALSE]
    ELSE IF sn.close_event
    THEN [sender |-> [sn EXCEPT !.task = 0], result |-> "stopped", waits |-> FALSE]
    ELSE IF sn.closed_event
    THEN [sender |-> [sn EXCEPT !.close_event = TRUE, !.task = 0], result |-> "stopped",
          waits |-> FALSE]
    ELSE [sender |-> [sn EXCEPT !.close_event = TRUE], result |-> "waiting", waits |-> TRUE]

\* The rest of _stop, after the wait: self._task = None
StopRest(sn) == [sn EXCEPT !.task = 0]

\* A variant of the lock that is free for everybody at any time.
LockNeverHeld == TRUE

\* Lock.acquire() returns at once when the lock is free and nobody waits for it.
LockFree == lock = 0 /\ lockq = <<>>

\* The first waiter takes the lock once it is released.
LockTurn(c) == lock = 0 /\ lockq # <<>> /\ Head(lockq) = c

Stale == [slast EXCEPT !.fresh = FALSE]

\* The sender's worker task, NewWorker when it has none.
TaskOf(sn, ws) == IF sn.task = 0 THEN NewWorker ELSE ws[sn.task]

\* A variant of the loop's test that does not look at _close_event.
LoopTestIgnoresSignal(close_event) == "sending"

\* while not self._close_event.is_set(): the worker's position after a wait
LoopTest(close_event) == IF close_event THEN "done" ELSE "sending"

\* A variant of the worker's exit that does not set _closed_event.
WorkerExitSilent(sn) == sn

\* finally: self._closed_event.set()
WorkerExit(sn) == [sn EXCEPT !.closed_event = TRUE]

\* _run from `async with self._lock` on: the body runs without an await and the
\* lock is released when it returns or raises.
DoRun(c) ==
    LET r == RunBody(sender, workers) IN
    /\ sender' = r.sender
    /\ workers' = r.workers
    /\ slast' = [caller |-> c, op |-> "start", result |-> r.result, before |-> sender,
                 nworkers |-> Len(workers), worker |-> TaskOf(sender, workers), fresh |-> TRUE]
    /\ cpc' = [cpc EXCEPT ![c] = "idle"]
    /\ lock' = 0

\* _stop from `async with self._lock` on, up to its wait or its end.
DoStop(c) ==
    LET r == StopBody(sender) IN
    /\ sender' = r.sender
    /\ slast' = [caller |-> c, op |-> "stop", result |-> r.result, before |-> sender,
                 nworkers |-> Len(workers), worker |-> TaskOf(sender, workers), fresh |-> ~r.waits]
    /\ cpc' = [cpc EXCEPT ![c] = IF r.waits THEN "stop_waiting" ELSE "idle"]
    /\ lock' = IF r.waits THEN c ELSE 0
    /\ UNCHANGED workers

----------------------------------------------------------------------------
(* The sender scenario: two callers call start (__aenter__) and stop       *)
(* (__aexit__) on one sender; the worker tasks run between their awaits.   *)

InitSender ==
    /\ cls = NoClass
    /\ x = <<>>
    /\ packed = NoPack
    /\ unpacked = NoUnpack
    /\ fres = NoFilterCall
    /\ pc = "start"
    /\ markup = <<>>
    /\ other = [button_type |-> DeclaredType, markup |-> <<>>]
    /\ nextId = 1
    /\ kerr = ""
    /\ kcall = ""
    /\ kargs = NoArgs
    /\ kprev = <<>>
    /\ ops = 0
    /\ kpc = "none"
    /\ heap = <<>>
    /\ self_markup = 0
    /\ their_markup = 0
    /\ arg = 0
    /\ exported = 0
    /\ ocall = ""
    /\ oprev = NoGrids
    /\ nextText = 1
    /\ oops = 0
    /\ sender = NewSender
    /\ workers = <<>>
    /\ lock = 0
    /\ lockq = <<>>
    /\ cpc = [c \in Callers |-> "idle"]
    /\ me \in BOOLEAN
    /\ sent = 0
    /\ calls = 0
    /\ slast = NoCall
    /\ tasks = <<RootTask>>
    /\ lcall = NoLocaleCall
    /\ lops = 0

\* await sender._run() with the lock free
StartNow ==
    \E c \in Callers :
        /\ cpc[c] = "idle"
        /\ calls < MaxCalls
        /\ LockFree
        /\ DoRun(c)
        /\ calls' = calls + 1
        /\ UNCHANGED <<lockq, me, sent>>
        /\ UNCHANGED <<codecVars, kbVars, ownVars, localeVars>>

\* await sender._stop() with the lock free
StopNow ==
    \E c \in Callers :
        /\ cpc[c] = "idle"
        /\ calls < MaxCalls
        /\ LockFree
        /\ DoStop(c)
        /\ calls' = calls + 1
        /\ UNCHANGED <<lockq, me, sent>>
        /\ UNCHANGED <<codecVars, kbVars, ownVars, localeVars>>

\* await sender._run() or sender._stop() with the lock taken: the caller waits
QueueForLock ==
    \E c \in Callers, op \in {"start_queued", "stop_queued"} :
        /\ cpc[c] = "idle"
        /\ calls < MaxCalls
        /\ ~LockFree
        /\ cpc' = [cpc EXCEPT ![c] = op]
        /\ lockq' = Append(lockq, c)
        /\ calls' = calls + 1
        /\ slast' = Stale
        /\ UNCHANGED <<sender, workers, lock, me, sent>>
        /\ UNCHANGED <<codecVars, kbVars, ownVars, localeVars>>

\* A caller that waited for the lock gets it and runs _run's body
StartAfterWait ==
    \E c \in Callers :
        /\ cpc[c] = "start_queued"
        /\ LockTurn(c)
        /\ DoRun(c)
        /\ lockq' = Tail(lockq)
        /\ UNCHANGED <<me, sent, calls>>
        /\ UNCHANGED <<codecVars, kbVars, ownVars, localeVars>>

\* A caller that waited for the lock gets it and runs _stop's body
StopAfterWait ==
    \E c \in Callers :
        /\ cpc[c] = "stop_queued"
        /\ LockTurn(c)
        /\ DoStop(c)
        /\ lockq' = Tail(lockq)
        /\ UNCHANGED <<me, sent, calls>>
        /\ UNCHANGED <<codecVars, kbVars, ownVars, localeVars>>

\* _closed_event is set: the stop waiting for it goes on, sets _task to None and
\* releases the lock
StopWakes ==
    \E c \in Callers :
        /\ cpc[c] = "stop_waiting"
        /\ sender.closed_event
        /\ sender' = StopRest(sender)
        /\ cpc' = [cpc EXCEPT ![c] = "idle"]
        /\ lock' = 0
        /\ slast' = [slast EXCEPT !.result = "stopped", !.fresh = TRUE]
        /\ UNCHANGED <<workers, lockq, me, sent, calls>>
        /\ UNCHANGED <<codecVars, kbVars, ownVars, localeVars>>

\* _worker from its start to its first await: the bot must be started
WorkerBegins ==
    \E w \in 1..Len(workers) :
        /\ workers[w].pc = "created"
        /\ workers' = [workers EXCEPT
                          ![w].pc = IF me THEN "initial_wait" ELSE "raised_before_try",
                          ![w].exception = IF me THEN "" ELSE "Bot is not started"]
        /\ slast' = Stale
        /\ UNCHANGED <<sender, lock, lockq, cpc, me, sent, calls>>
        /\ UNCHANGED <<codecVars, kbVars, ownVars, localeVars>>

\* self._wait() ends, by _close_event or by its timeout, and the loop's test is
\* made: the worker leaves the loop (finally: _closed_event.set()) or begins a send
WorkerWaitEnds ==
    \E w \in 1..Len(workers) :
        /\ workers[w].pc \in {"initial_wait", "waiting"}
        /\ sender.close_event \/ sent < MaxSends
        /\ workers' = [workers EXCEPT ![w].pc = LoopTest(sender.close_event)]
        /\ sender' = IF LoopTest(sender.close_event) = "done" THEN WorkerExit(sender)
                                                             ELSE sender
        /\ slast' = Stale
        /\ UNCHANGED <<lock, lockq, cpc, me, sent, calls>>
        /\ UNCHANGED <<codecVars, kbVars, ownVars, localeVars>>

\* send_chat_action returns: counter += 1, then the next wait
WorkerSendReturns ==
    \E w \in 1..Len(workers) :
        /\ workers[w].pc = "sending"
        /\ workers' = [workers EXCEPT ![w].pc = "waiting",
                                       ![w].counter = workers[w].counter + 1]
        /\ sent' = sent + 1
        /\ slast' = Stale
        /\ UNCHANGED <<sender, lock, lockq, cpc, me, calls>>
        /\ UNCHANGED <<codecVars, kbVars, ownVars, localeVars>>

\* send_chat_action raises: finally: _closed_event.set(), and the task ends
WorkerSendRaises ==
    \E w \in 1..Len(workers) :
        /\ workers[w].pc = "sending"
        /\ workers' = [workers EXCEPT ![w].pc = "raised",
                                       ![w].exception = "send_chat_action"]
        /\ sender' = WorkerExit(sender)
        /\ slast' = Stale
        /\ UNCHANGED <<lock, lockq, cpc, me, sent, calls>>
        /\ UNCHANGED <<codecVars, kbVars, ownVars, localeVars>>

NextSender ==
    \/ StartNow
    \/ StopNow
    \/ QueueForLock
    \/ StartAfterWait
    \/ StopAfterWait
    \/ StopWakes
    \/ WorkerBegins
    \/ WorkerWaitEnds
    \/ WorkerSendReturns
    \/ WorkerSendRaises

SpecSender == InitSender /\ [][NextSender]_vars

----------------------------------------------------------------------------
(* I18n's current locale.  It is kept in a ContextVar of the instance: a   *)
(* task's context holds a value for it or none.  A task is a record: ctx   *)
(* is the variable's value in the task's context (Missing for none),       *)
(* blocks the use_locale blocks the task is in, innermost last, each with  *)
(* the token of its set and the locale current_locale gave on entry, and   *)
(* parent the task that created it.                                        *)

\* I18n(default_locale="en")
default_locale == "en"

Locales == {"en", "pt", "ru"}

\* ContextVar.get(): the value in the context, the default when there is none
CtxGet(c) == IF c = Missing THEN default_locale ELSE c

\* ContextVar.set(value): the new value and the token, which keeps the old one
CtxSet(c, value) == [ctx |-> value, token |-> [old_value |-> c]]

\* ContextVar.reset(token): the value the variable had before the token's set
CtxReset(c, token) == token.old_value

\* I18n.current_locale (the getter)
current_locale(task) == CtxGet(task.ctx)

\* I18n.current_locale = value (the setter)
SetCurrentLocale(task, value) == [task EXCEPT !.ctx = CtxSet(task.ctx, value).ctx]

\* use_locale up to its yield: ctx_token = self.ctx_locale.set(locale)
UseLocaleEnter(task, locale) ==
    LET r == CtxSet(task.ctx, locale) IN
    [task EXCEPT !.ctx = r.ctx,
                 !.blocks = Append(task.blocks, [token |-> r.token,
                                                 entered |-> current_locale(task)])]

\* A variant of the end of use_locale that sets the default locale.
UseLocaleExitToDefault(task) ==
    [task EXCEPT !.ctx = default_locale,
                 !.blocks = SubSeq(task.blocks, 1, Len(task.blocks) - 1)]

\* use_locale after its yield, the block having returned or raised:
\* finally: self.ctx_locale.reset(ctx_token)
UseLocaleExit(task) ==
    [task EXCEPT !.ctx = CtxReset(task.ctx, task.blocks[Len(task.blocks)].token),
                 !.blocks = SubSeq(task.blocks, 1, Len(task.blocks) - 1)]

\* asyncio.create_task in a task: the new task runs in a copy of the context
CreateTask(ts, t) == Append(ts, [ctx |-> ts[t].ctx, blocks |-> <<>>, parent |-> t])

----------------------------------------------------------------------------
(* The locale scenario: tasks set the locale, enter and leave use_locale   *)
(* blocks and create tasks, in any order.                                  *)

MaxTasks == 3
MaxDepth == 2
MaxLocaleOps == 5

InitLocale ==
    /\ cls = NoClass
    /\ x = <<>>
    /\ packed = NoPack
    /\ unpacked = NoUnpack
    /\ fres = NoFilterCall
    /\ pc = "start"
    /\ markup = <<>>
    /\ other = [button_type |-> DeclaredType, markup |-> <<>>]
    /\ nextId = 1
    /\ kerr = ""
    /\ kcall = ""
    /\ kargs = NoArgs
    /\ kprev = <<>>
    /\ ops = 0
    /\ kpc = "none"
    /\ heap = <<>>
    /\ self_markup = 0
    /\ their_markup = 0
    /\ arg = 0
    /\ exported = 0
    /\ ocall = ""
    /\ oprev = NoGrids
    /\ nextText = 1
    /\ oops = 0
    /\ sender = NewSender
    /\ workers = <<>>
    /\ lock = 0
    /\ lockq = <<>>
    /\ cpc = [c \in Callers |-> "idle"]
    /\ me = TRUE
    /\ sent = 0
    /\ calls = 0
    /\ slast = NoCall
    /\ tasks = <<RootTask>>
    /\ lcall = NoLocaleCall
    /\ lops = 0

\* i18n.current_locale = locale, in task t
LocSet ==
    \E t \in 1..Len(tasks), locale \in Locales :
        /\ lops < MaxLocaleOps
        /\ tasks' = [tasks EXCEPT ![t] = SetCurrentLocale(tasks[t], locale)]
        /\ lcall' = [task |-> t, op |-> "set", locale |-> locale, how |-> "", prev |-> tasks]
        /\ lops' = lops + 1
        /\ UNCHANGED <<codecVars, kbVars, ownVars, senderVars>>

\* with i18n.use_locale(locale): entered in task t
LocEnter ==
    \E t \in 1..Len(tasks), locale \in Locales :
        /\ lops < MaxLocaleOps
        /\ Len(tasks[t].blocks) < MaxDepth
        /\ tasks' = [tasks EXCEPT ![t] = UseLocaleEnter(tasks[t], locale)]
        /\ lcall' = [task |-> t, op |-> "enter", locale |-> locale, how |-> "",
                     prev |-> tasks]
        /\ lops' = lops + 1
        /\ UNCHANGED <<codecVars, kbVars, ownVars, senderVars>>

\* The innermost use_locale block of task t ends, by its end or by an exception
LocExit ==
    \E t \in 1..Len(tasks), how \in {"return", "raise"} :
        /\ tasks[t].blocks # <<>>
        /\ tasks' = [tasks EXCEPT ![t] = UseLocaleExit(tasks[t])]
        /\ lcall' = [task |-> t, op |-> "exit", locale |-> "", how |-> how, prev |-> tasks]
        /\ UNCHANGED lops
        /\ UNCHANGED <<codecVars, kbVars, ownVars, senderVars>>

\* Task t creates a task
LocSpawn ==
    \E t \in 1..Len(tasks) :
        /\ lops < MaxLocaleOps
        /\ Len(tasks) < MaxTasks
        /\ tasks' = CreateTask(tasks, t)
        /\ lcall' = [task |-> t, op |-> "spawn", locale |-> "", how |-> "", prev |-> tasks]
        /\ lops' = lops + 1
        /\ UNCHANGED <<codecVars, kbVars, ownVars, senderVars>>

NextLocale ==
    \/ LocSet
    \/ LocEnter
    \/ LocExit
    \/ LocSpawn

SpecLocale == InitLocale /\ [][NextLocale]_vars

----------------------------------------------------------------------------
(* Properties of the codec, stated over the states of the codec scenario.  *)

\* The token of a value as the specification gives it: empty for None, "1" or
\* "0" for a boolean, the decimal form of an integer, a text as it is, a UUID
\* as its 32 hexadecimal digits.
SpecToken(v) ==
    CASE v.kind = "none" -> <<>>
      [] v.kind = "bool" -> IF v.n = 1 THEN <<"1">> ELSE <<"0">>
      [] v.kind = "int" -> IntToStr(v.n)
      [] v.kind = "str" -> v.s
      [] v.kind = "UUID" -> v.s
      [] OTHER -> <<>>

PlainKinds == {"none", "bool", "int", "str"}

\* pack() has been called on x (and has returned or raised).
PackCalled == pc \in {"packed", "unpacked", "filtered"} /\ packed.status # "none"

\* unpack() has been called (and has returned or raised).
UnpackCalled == pc = "unpacked" /\ unpacked.status # "none"

\* The token pack() produces for the i-th field of x, and whether it produces one.
ProducedOk(i) == _encode_value(cls.module, DumpJsonValue(x[i])).ok
ProducedToken(i) == _encode_value(cls.module, DumpJsonValue(x[i])).tok

RECURSIVE SepTokens(_, _)
\* sep tok1 sep tok2 ... sep tokN
SepTokens(sep, toks) ==
    IF toks = <<>> THEN <<>> ELSE sep \o Head(toks) \o SepTokens(sep, Tail(toks))

\* The first token of raw when raw is split on the separator.
FirstToken(raw, sep) == Head(Split(raw, sep))

\* A field is nullable as the specification has it: it has a default, or its
\* declared type is optional.
SpecNullable(f) == ~f.required \/ f.optional

\* C1: round trip.  For an accepted class and an instance x that pack() accepts
\* (no token holds the separator, the payload is at most 64 bytes),
\* unpack(pack(x)) succeeds and yields an instance equal to x in every field.
C1_RoundTrip ==
    (pc = "unpacked" /\ packed.status = "ok" /\ unpacked.raw = packed.data)
        => (unpacked.status = "ok" /\ unpacked.values = x)

\* C1: the instance C(a=5, b=None) of a class with prefix "p", the default
\* separator and fields (a: int, b: Optional[str]) packs to "p:5:", and unpacking
\* "p:5:" yields b = "" where x has b = None.
C1_NoneComesBackAsEmptyText ==
    /\ pc = "unpacked"
    /\ cls.prefix = <<"p">> /\ cls.sep = <<":">>
    /\ cls.fields = <<FInt, FOptStr>>
    /\ x = <<IntV(5), NoneV>>
    /\ packed.status = "ok" /\ packed.data = <<"p", ":", "5", ":">>
    /\ unpacked.raw = packed.data
    /\ unpacked.status = "ok"
    /\ unpacked.values = <<IntV(5), StrV(<<>>)>>

\* C2: pack() never returns a payload of more than 64 UTF-8 bytes.  When every
\* field yields a token without the separator, pack() returns the joined text if
\* its length in bytes is at most 64 and raises the too-long error, returning
\* nothing, if it is 65 or more.
C2_PackWithin64Bytes ==
    PackCalled =>
        LET joined == cls.prefix
                        \o SepTokens(cls.sep, [i \in 1..Len(x) |-> ProducedToken(i)])
            clean == \A i \in 1..Len(x) :
                        ProducedOk(i) /\ ~Contains(cls.sep, ProducedToken(i)) IN
        /\ packed.status = "ok" => Utf8Len(packed.data) <= 64
        /\ (clean /\ Utf8Len(joined) <= 64) => (packed.status = "ok" /\ packed.data = joined)
        /\ (clean /\ Utf8Len(joined) >= 65)
              => (packed.status = "ValueError" /\ packed.why = "too long"
                    /\ packed.data = <<>>)
        /\ packed.why = "too long" => (clean /\ Utf8Len(joined) >= 65)

\* C2: pack() has returned a payload of exactly 64 bytes that has fewer than 64
\* characters.
C2_Exactly64Bytes ==
    /\ PackCalled
    /\ packed.status = "ok"
    /\ Utf8Len(packed.data) = 64
    /\ Len(packed.data) < 64

\* C3: when pack() succeeds its result is the prefix followed, for each field in
\* declaration order, by the separator and the field's token; the token of None
\* is empty, of a boolean "1" or "0", of an integer or a text its string form.
C3_PackFormat ==
    (PackCalled /\ packed.status = "ok") =>
        /\ Len(packed.tokens) = Len(cls.fields) + 1
        /\ packed.data
             = cls.prefix
                 \o SepTokens(cls.sep,
                              [i \in 1..Len(x) |->
                                  IF x[i].kind \in PlainKinds THEN SpecToken(x[i])
                                  ELSE packed.tokens[i + 1]])

\* C3: pack() has succeeded on an instance of two fields, one None and one a
\* boolean.
C3_PackedNoneAndBool ==
    /\ PackCalled
    /\ packed.status = "ok"
    /\ Len(x) = 2
    /\ x[1].kind = "none"
    /\ x[2].kind = "bool"

\* C4: pack() encodes a field whose value is a UUID as the UUID's 32 hexadecimal
\* digits, without hyphens.
C4_UuidPackedAsHex ==
    (PackCalled /\ packed.status = "ok") =>
        \A i \in 1..Len(x) : x[i].kind = "UUID" => packed.tokens[i + 1] = UuidHex(x[i])

\* C4: pack() has succeeded on C(id=UUID("aaaa...")) of a class with prefix "p"
\* and the default separator, and its payload is "p:" followed by the hyphenated
\* form of 36 characters.
C4_UuidPackedHyphenated ==
    /\ PackCalled
    /\ packed.status = "ok"
    /\ cls.prefix = <<"p">> /\ cls.sep = <<":">>
    /\ cls.fields = <<FUuid>>
    /\ x = <<UuidV(Rep("a", 32))>>
    /\ packed.data = <<"p", ":">> \o UuidStr(x[1])
    /\ Len(packed.data) = 38

\* C5: pack() checks each token as it is produced, in declaration order.  When
\* the first field that stops pack() has a token holding the separator, pack()
\* raises the error naming that field and its token and returns nothing; a
\* payload pack() returns has no field token holding the separator.
C5_SeparatorInToken ==
    PackCalled =>
        /\ \A k \in 1..Len(x) :
              (/\ \A i \in 1..(k - 1) :
                     ProducedOk(i) /\ ~Contains(cls.sep, ProducedToken(i))
               /\ ProducedOk(k)
               /\ Contains(cls.sep, IF x[k].kind \in PlainKinds THEN SpecToken(x[k])
                                    ELSE ProducedToken(k)))
              => /\ packed.status = "ValueError"
                 /\ packed.why = "separator in value"
                 /\ packed.field = k
                 /\ packed.token = ProducedToken(k)
                 /\ packed.data = <<>>
        /\ packed.status = "ok"
              => \A i \in 1..Len(x) : ~Contains(cls.sep, packed.tokens[i + 1])

\* C5: two fields both hold the separator and pack() has raised the error naming
\* the first.
C5_FirstOffenderNamed ==
    /\ PackCalled
    /\ Len(x) = 2
    /\ x[1].kind = "str" /\ Contains(cls.sep, x[1].s)
    /\ x[2].kind = "str" /\ Contains(cls.sep, x[2].s)
    /\ packed.status = "ValueError"
    /\ packed.why = "separator in value"
    /\ packed.field = 1

\* C6: unpack(raw) splits raw on the separator.  It raises TypeError whenever the
\* number of tokens after the first differs from the number of fields, also when
\* the first token differs from the prefix; it raises the prefix ValueError when
\* the number matches and the first token differs from the prefix; otherwise the
\* i-th token goes to the i-th field.
C6_ArityBeforePrefix ==
    UnpackCalled =>
        LET tokens == Split(unpacked.raw, cls.sep) IN
        /\ Len(tokens) - 1 # Len(cls.fields)
              => (unpacked.status = "TypeError" /\ unpacked.why = "arity")
        /\ (Len(tokens) - 1 = Len(cls.fields) /\ tokens[1] # cls.prefix)
              => (unpacked.status = "ValueError" /\ unpacked.why = "bad prefix")
        /\ (Len(tokens) - 1 = Len(cls.fields) /\ tokens[1] = cls.prefix)
              => /\ unpacked.why \notin {"arity", "bad prefix"}
                 /\ Len(unpacked.payload) = Len(cls.fields)
                 /\ \A i \in 1..Len(cls.fields) :
                       unpacked.payload[i] \in {NoneV, StrV(tokens[i + 1])}

\* C6: unpack() has raised TypeError on a payload whose token count and first
\* token are both wrong.
C6_BothWrong ==
    /\ UnpackCalled
    /\ unpacked.status = "TypeError"
    /\ Len(Split(unpacked.raw, cls.sep)) - 1 # Len(cls.fields)
    /\ FirstToken(unpacked.raw, cls.sep) # cls.prefix

\* C7: in unpack() a field receives None exactly when its token is empty and the
\* field is nullable, a field being nullable when it has a default or its
\* declared type is optional (also when it is required); every other token is
\* handed to the constructor unchanged.
C7_NoneForNullable ==
    (UnpackCalled /\ unpacked.why \notin {"arity", "bad prefix"}) =>
        \A i \in 1..Len(cls.fields) :
            unpacked.payload[i]
                = IF unpacked.parts[i] = <<>> /\ SpecNullable(cls.fields[i])
                  THEN NoneV ELSE StrV(unpacked.parts[i])

\* C7: unpack("p:5:") against the class with prefix "p" and fields
\* (a: int, b: Optional[str]) has returned a = 5, b = "".
C7_EmptyTextForRequiredOptional ==
    /\ UnpackCalled
    /\ packed.status = "none"
    /\ cls.prefix = <<"p">> /\ cls.sep = <<":">>
    /\ cls.fields = <<FInt, FOptStr>>
    /\ unpacked.raw = <<"p", ":", "5", ":">>
    /\ unpacked.status = "ok"
    /\ unpacked.payload = <<StrV(<<"5">>), StrV(<<>>)>>
    /\ unpacked.values = <<IntV(5), StrV(<<>>)>>

\* A declaration has been made (it succeeded or raised).
Declared == pc # "start"

\* The separator a declaration's keyword arguments give: ":" when none is given.
SpecSep(kw) == IF kw.has_sep THEN kw.sep ELSE <<":">>

\* C8 as stated: every class whose declaration succeeds has a prefix that is not
\* empty and does not contain the separator; a declaration without prefix, or
\* with a prefix containing the separator, raises, and no instance is built.
C8_PrefixNonEmptyNoSeparator ==
    Declared =>
        /\ cls.declared => (cls.prefix # <<>> /\ ~Contains(cls.sep, cls.prefix))
        /\ (~cls.kw.has_prefix \/ Contains(SpecSep(cls.kw), cls.kw.prefix))
              => (~cls.declared /\ pc = "decl_error" /\ x = <<>>)

\* C8 amended: every class whose declaration succeeds was given a prefix, which
\* may be empty and does not contain the separator; a declaration without
\* prefix, or with a prefix containing the separator, raises at declaration, and
\* after it no instance is built, packed, unpacked or filtered.
C8_PrefixWithoutSeparator ==
    Declared =>
        /\ cls.declared
              => /\ cls.kw.has_prefix
                 /\ cls.prefix = cls.kw.prefix
                 /\ cls.sep = SpecSep(cls.kw)
                 /\ ~Contains(cls.sep, cls.prefix)
        /\ (~cls.kw.has_prefix \/ Contains(SpecSep(cls.kw), cls.kw.prefix))
              => (~cls.declared /\ cls.error # "" /\ pc = "decl_error")
        /\ ~cls.declared
              => /\ pc = "decl_error"
                 /\ x = <<>>
                 /\ packed = NoPack
                 /\ unpacked = NoUnpack
                 /\ fres = NoFilterCall

\* C8: the declaration with prefix "p:" and the default separator has raised.
C8_SeparatorInPrefixRaised ==
    /\ pc = "decl_error"
    /\ ~cls.declared
    /\ cls.kw.has_prefix
    /\ cls.kw.prefix = <<"p", ":">>
    /\ ~cls.kw.has_sep
    /\ cls.error = "separator inside prefix"

----------------------------------------------------------------------------
(* Properties of the keyboard builder, stated over the states of the       *)
(* keyboard scenario.                                                      *)

\* C10: after any sequence of calls on the builder, every row of the grid holds
\* at most max_width = 8 buttons.
C10_RowsWithinMaxWidth ==
    kpc = "ready" => \A r \in 1..Len(markup) : Len(markup[r]) <= 8

\* C10: adjust() has returned without error and left a row of 9 buttons.
C10_AdjustLeavesRowOfNine ==
    /\ kpc = "ready"
    /\ kcall = "adjust"
    /\ kerr = ""
    /\ \E r \in 1..Len(markup) : Len(markup[r]) = 9

\* The row lengths of a markup.
RowLens(m) == [r \in 1..Len(m) |-> Len(m[r])]

\* Some button of the sequence is not of the builder's declared type.
WrongType(buttons) == \E i \in 1..Len(buttons) : buttons[i].type # DeclaredType

\* C11: after any call on the builder the grid holds at most max_buttons = 100
\* buttons (a call that would take it above 100 fails instead).
C11_ButtonsWithinMaxButtons ==
    kpc = "ready" => CountButtons(markup) <= 100

\* C11: add() of 9 buttons on a grid of 96 has returned without error and the
\* grid holds 105 buttons.
C11_AddGrowsPast100 ==
    /\ kpc = "ready"
    /\ kcall = "add"
    /\ kerr = ""
    /\ CountButtons(kprev) = 96
    /\ Len(kargs.buttons) = 9
    /\ CountButtons(markup) = 105

\* C12: add, row and the constructor reject a button, at any position, that is
\* not of the declared type, and a rejected call leaves the grid as it was.
C12_WrongTypeRejected ==
    /\ (kcall \in {"add", "row"} /\ WrongType(kargs.buttons))
          => (kerr # "" /\ markup = kprev)
    /\ (kcall = "new" /\ \E r \in 1..Len(kargs.markup) : WrongType(kargs.markup[r]))
          => (kerr # "" /\ kpc = "failed")
    /\ (kcall \in {"add", "row"} /\ kerr # "") => markup = kprev

\* C12: add() of one button of another class has returned without error and the
\* button is in the grid.
C12_AddAcceptsWrongType ==
    /\ kpc = "ready"
    /\ kcall = "add"
    /\ Len(kargs.buttons) = 1
    /\ kargs.buttons[1].type # DeclaredType
    /\ kerr = ""
    /\ markup # kprev
    /\ WrongType(Flatten(markup))

\* The size sequence of adjust as the specification has it.
SpecSizeAt(sizes, repeat, i) ==
    LET sz == IF sizes = <<>> THEN <<8>> ELSE sizes IN
    IF repeat THEN sz[((i - 1) % Len(sz)) + 1]
    ELSE IF i <= Len(sz) THEN sz[i] ELSE sz[Len(sz)]

RECURSIVE SpecReflow(_, _, _, _)
\* The rows of the buttons when the i-th row and the rows after it take their
\* sizes from the size sequence.
SpecReflow(buttons, sizes, repeat, i) ==
    IF buttons = <<>> THEN <<>>
    ELSE LET n == SpecSizeAt(sizes, repeat, i)
             k == IF n < Len(buttons) THEN n ELSE Len(buttons) IN
         <<SubSeq(buttons, 1, k)>>
             \o SpecReflow(SubSeq(buttons, k + 1, Len(buttons)), sizes, repeat, i + 1)

\* C13: adjust(sizes, repeat) with sizes in 1..8 re-flows the buttons, in
\* row-major order, so that the i-th new row holds exactly the i-th size of the
\* size sequence (the final row may be shorter).
C13_AdjustRowSizes ==
    (kpc = "ready" /\ kcall = "adjust"
        /\ \A j \in 1..Len(kargs.sizes) : kargs.sizes[j] \in 1..8)
        => markup = SpecReflow(Flatten(kprev), kargs.sizes, kargs.repeat, 1)

\* C13: adjust(2, 3) on a grid of 7 buttons has left rows of 3, 3 and 1 buttons.
C13_AdjustTwoThreeOnSeven ==
    /\ kpc = "ready"
    /\ kcall = "adjust"
    /\ kargs.sizes = <<2, 3>>
    /\ ~kargs.repeat
    /\ CountButtons(kprev) = 7
    /\ RowLens(markup) = <<3, 3, 1>>

\* C14: add(b1..bk) leaves the earlier rows unchanged, fills the last existing
\* row up to max_width, and puts the remainder, in order, into new rows of
\* max_width buttons each, of which only the final one may be shorter.
C14_AddFillsLastRow ==
    (kpc = "ready" /\ kcall = "add") =>
        LET k == Len(kargs.buttons)
            p == Len(kprev)
            room == p > 0 /\ Len(kprev[p]) < 8 IN
        /\ kerr = ""
        /\ Len(markup) >= p
        /\ \A r \in 1..(p - 1) : markup[r] = kprev[r]
        /\ Flatten(markup) = Flatten(kprev) \o kargs.buttons
        /\ room => Len(markup[p])
                      = (IF Len(kprev[p]) + k < 8 THEN Len(kprev[p]) + k ELSE 8)
        /\ (p > 0 /\ ~room) => markup[p] = kprev[p]
        /\ \A r \in (p + 1)..Len(markup) :
              IF r < Len(markup) THEN Len(markup[r]) = 8 ELSE Len(markup[r]) \in 1..8

\* C14: add() of 9 buttons on an empty builder has given the rows [b1..b8], [b9].
C14_AddNineOnEmpty ==
    /\ kpc = "ready"
    /\ kcall = "add"
    /\ kprev = <<>>
    /\ Len(kargs.buttons) = 9
    /\ markup = <<SubSeq(kargs.buttons, 1, 8), <<kargs.buttons[9]>>>>

\* C15: row(b1..bk, width) leaves every existing row unchanged and appends
\* ceil(k / width) rows holding the buttons in order, each of width buttons
\* except possibly the last; a width that is no integer in 1..8 fails; a failed
\* call leaves the grid unchanged; a width left out means max_width.
C15_RowAppendsRows ==
    (kpc = "ready" /\ kcall = "row") =>
        LET k == Len(kargs.buttons)
            p == Len(kprev)
            w == IF kargs.has_width THEN kargs.width ELSE [kind |-> "int", n |-> 8]
            valid == w.kind = "int" /\ w.n \in 1..8 IN
        /\ ~valid => kerr # ""
        /\ (valid /\ ~WrongType(kargs.buttons)) => kerr = ""
        /\ kerr # "" => markup = kprev
        /\ kerr = ""
              => /\ valid
                 /\ Len(markup) = p + ((k + w.n - 1) \div w.n)
                 /\ \A r \in 1..p : markup[r] = kprev[r]
                 /\ Flatten(SubSeq(markup, p + 1, Len(markup))) = kargs.buttons
                 /\ \A r \in (p + 1)..Len(markup) :
                       IF r < Len(markup) THEN Len(markup[r]) = w.n
                       ELSE Len(markup[r]) \in 1..w.n

\* C15: row() of 9 buttons without width, on a grid whose last row has room, has
\* left that row as it was and appended a row of 8 and a row of 1.
C15_RowStartsNewRows ==
    /\ kpc = "ready"
    /\ kcall = "row"
    /\ kerr = ""
    /\ ~kargs.has_width
    /\ Len(kargs.buttons) = 9
    /\ kprev # <<>>
    /\ Len(kprev[Len(kprev)]) < 8
    /\ RowLens(markup) = RowLens(kprev) \o <<8, 1>>

\* C16: adjust changes only the row structure: the row-major sequence of buttons
\* after adjust equals the one before it.
C16_AdjustKeepsButtons ==
    (kpc = "ready" /\ kcall = "adjust") => Flatten(markup) = Flatten(kprev)

\* C16: adjust() has changed the rows of a grid of at least 4 buttons.
C16_AdjustChangedRows ==
    /\ kpc = "ready"
    /\ kcall = "adjust"
    /\ CountButtons(kprev) >= 4
    /\ RowLens(markup) # RowLens(kprev)

----------------------------------------------------------------------------
(* Properties of the ownership of the grid, stated over the states of the  *)
(* ownership scenario.                                                     *)

\* C18: export() returns a grid that shares no row and no button with the
\* builder: what the caller does to the returned list never changes the
\* builder's grid, and later calls on the builder never change the list returned.
C18_ExportIsIndependent ==
    exported # 0 =>
        /\ Reach(heap, exported) \cap Reach(heap, self_markup) = {}
        /\ ocall = "export" => GridValue(heap, exported) = GridValue(heap, self_markup)
        /\ ocall = "mutate_exported" => GridValue(heap, self_markup) = oprev.self
        /\ ocall \in {"add", "row", "adjust", "attach"}
              => GridValue(heap, exported) = oprev.exported

\* C18: the caller has assigned to the text of a button of the exported list, and
\* the exported grid has changed.
C18_ExportedButtonEdited ==
    /\ exported # 0
    /\ ocall = "mutate_exported"
    /\ GridValue(heap, exported) # oprev.exported
    /\ RowLens(GridValue(heap, exported)) = RowLens(oprev.exported)
    /\ GridValue(heap, self_markup) # <<>>

----------------------------------------------------------------------------
(* Properties of ChatActionSender, stated over the states of the sender    *)
(* scenario.                                                               *)

\* C19: a stop called while no worker is running changes nothing and leaves the
\* sender idle; a start called while the sender is running raises 'Already
\* running' and creates no second worker.
C19_IdleStopAndSecondStart ==
    slast.fresh =>
        /\ (slast.op = "stop" /\ slast.before.task = 0)
              => /\ slast.result = "noop"
                 /\ sender = slast.before
                 /\ sender.task = 0
                 /\ Len(workers) = slast.nworkers
        /\ (slast.op = "start" /\ slast.before.task # 0)
              => /\ slast.result = "Already running"
                 /\ sender.task = slast.before.task
                 /\ Len(workers) = slast.nworkers
        /\ slast.result = "noop" => slast.before.task = 0
        /\ slast.result = "Already running" => slast.before.task # 0

\* C19: a second start, with no stop between, has raised 'Already running' and
\* there is one worker.
C19_SecondStartRaised ==
    /\ slast.fresh
    /\ slast.op = "start"
    /\ slast.result = "Already running"
    /\ sender.task = 1
    /\ Len(workers) = 1

\* C20: a stop called on a running sender returns in the end: while it waits for
\* the worker's exit signal, the signal is set or the worker has yet to end (and
\* sets it when it ends).
C20_StopCanReturn ==
    \A c \in Callers :
        cpc[c] = "stop_waiting"
            => (sender.closed_event \/ ~WorkerEnded(workers[sender.task]))

\* C20: the bot is not started, the worker has raised before its try block, and
\* the stop waits for an exit signal that nothing will set.
C20_StopHangsBotNotStarted ==
    /\ ~me
    /\ \E c \in Callers : cpc[c] = "stop_waiting" /\ lock = c
    /\ ~sender.closed_event
    /\ workers[sender.task].pc = "raised_before_try"
    /\ \A w \in 1..Len(workers) : WorkerEnded(workers[w])

\* The workers that have not ended.
ActiveWorkers == {w \in 1..Len(workers) : ~WorkerEnded(workers[w])}

\* C21: a stop of a running sender returns only when the worker has left its
\* loop: in the state it returns in no worker is active and no send is in
\* flight, and while the sender is idle (until a later start) no worker is active,
\* so no send is started.
C21_StopReturnsAfterWorker ==
    /\ (slast.fresh /\ slast.op = "stop" /\ slast.result = "stopped")
          => /\ ActiveWorkers = {}
             /\ \A w \in 1..Len(workers) : workers[w].pc # "sending"
    /\ sender.task = 0 => ActiveWorkers = {}

\* C21: a stop that waited has returned; the worker had made a send and has left
\* its loop.
C21_StopReturnedAfterSend ==
    /\ slast.fresh
    /\ slast.op = "stop"
    /\ slast.result = "stopped"
    /\ slast.worker.pc \in {"sending", "waiting"}
    /\ workers[slast.before.task].pc = "done"
    /\ workers[slast.before.task].counter >= 1
    /\ sender.task = 0

\* C22: the bodies of start and stop do not overlap: the lock is held by the one
\* stop that waits inside its body, no call runs its body while another is
\* inside, and at most one worker is active.
C22_BodiesSerializedOneWorker ==
    /\ Cardinality({c \in Callers : cpc[c] = "stop_waiting"}) <= 1
    /\ \A c \in Callers : cpc[c] = "stop_waiting" <=> lock = c
    /\ slast.fresh
          => \A c \in Callers : c # slast.caller => cpc[c] # "stop_waiting"
    /\ Cardinality(ActiveWorkers) <= 1

\* C22: a start waits for the lock while a stop is inside its body, waiting for
\* the one active worker.
C22_StartWaitsForStop ==
    /\ \E c \in Callers : cpc[c] = "stop_waiting" /\ lock = c
    /\ \E c \in Callers : cpc[c] = "start_queued" /\ lockq = <<c>>
    /\ Cardinality(ActiveWorkers) = 1

----------------------------------------------------------------------------
(* Properties of I18n's current locale, stated over the states of the      *)
(* locale scenario.                                                        *)

\* C23: the current locale is scoped per task.  An operation of one task leaves
\* the current locale of every other task as it was (parent and siblings); a
\* new task starts with the locale its parent had when it created it; the setter
\* and the entry of use_locale make the locale current in their task; the end
\* of a use_locale block, by its end or by an exception, restores the locale that
\* was current when the block was entered, nested blocks included.
C23_LocalePerTask ==
    /\ \A t \in 1..Len(lcall.prev) :
          t # lcall.task => current_locale(tasks[t]) = current_locale(lcall.prev[t])
    /\ lcall.op = "spawn"
          => /\ Len(tasks) = Len(lcall.prev) + 1
             /\ current_locale(tasks[Len(tasks)]) = current_locale(lcall.prev[lcall.task])
             /\ current_locale(tasks[lcall.task]) = current_locale(lcall.prev[lcall.task])
    /\ lcall.op \in {"set", "enter"} => current_locale(tasks[lcall.task]) = lcall.locale
    /\ lcall.op = "exit"
          => LET before == lcall.prev[lcall.task] IN
             current_locale(tasks[lcall.task]) = before.blocks[Len(before.blocks)].entered

\* C23: a task has left the inner of two nested use_locale blocks by an
\* exception and its locale is the outer block's again, not the default and not
\* the inner block's, while another task has a different locale.
C23_NestedBlockLeftByException ==
    /\ lcall.op = "exit"
    /\ lcall.how = "raise"
    /\ Len(tasks[lcall.task].blocks) = 1
    /\ current_locale(tasks[lcall.task]) # default_locale
    /\ current_locale(tasks[lcall.task]) # current_locale(lcall.prev[lcall.task])
    /\ \E t \in 1..Len(tasks) :
          /\ t # lcall.task
          /\ current_locale(tasks[t]) \notin {default_locale, current_locale(tasks[lcall.task])}

\* The last call was a stop that set the cancellation signal of a running
\* sender.
StopSignalled ==
    /\ slast.op = "stop"
    /\ slast.before.task # 0
    /\ ~slast.before.close_event

\* C24: cancellation is cooperative.  From the stop's signal on, its worker starts
\* no new send: it is in a send only if it was in that send when the signal was
\* set, and it makes at most that one send more; a wait it was in ends only by
\* leaving the loop, and can end whatever the time waited; signalled before or
\* during the initial sleep, it makes no send at all.
C24_CooperativeCancellation ==
    /\ StopSignalled
          => LET w == workers[slast.before.task]
                 w0 == slast.worker
             IN  /\ w.pc = "sending" => (w0.pc = "sending" /\ w.counter = w0.counter)
                 /\ w.counter <= w0.counter + (IF w0.pc = "sending" THEN 1 ELSE 0)
                 /\ w0.pc \in {"created", "initial_wait"} => w.counter = 0
                 /\ w0.pc \in {"initial_wait", "waiting"} => w.pc \in {w0.pc, "done"}
                 /\ w0.pc = "sending" => w.pc \in {"sending", "waiting", "done", "raised"}
    /\ (sender.close_event
            /\ \E w \in 1..Len(workers) : workers[w].pc \in {"initial_wait", "waiting"})
          => ENABLED WorkerWaitEnds

\* C24: the signal was set while a send was in flight; the send has completed
\* and the worker has left the loop at its next test, with that one send more.
C24_SendInFlightCompleted ==
    /\ StopSignalled
    /\ slast.worker.pc = "sending"
    /\ workers[slast.before.task].pc = "done"
    /\ workers[slast.before.task].counter = slast.worker.counter + 1

\* C25: in every step of a worker, a wait that ends while the signal is not set
\* (a timeout) is followed by the next send; a send that raises ends the loop:
\* the worker sets the exit signal in that step, its task ends with the send's
\* exception, for whoever awaits it, and it makes no step afterwards.
C25_TimeoutContinuesRaiseEnds ==
    [][\A w \in 1..Len(workers) :
          /\ (workers[w].pc \in {"initial_wait", "waiting"}
                 /\ ~sender.close_event
                 /\ workers'[w].pc # workers[w].pc)
                => (workers'[w].pc = "sending" /\ workers'[w].exception = "")
          /\ (workers[w].pc = "sending" /\ workers'[w].pc = "raised")
                => /\ sender'.closed_event
                   /\ workers'[w].exception = "send_chat_action"
                   /\ workers'[w].counter = workers[w].counter
          /\ workers[w].pc = "raised" => workers'[w] = workers[w]]_vars

\* C25: a worker made a send, its wait timed out, and its second send raised:
\* the worker has ended with the exception and the exit signal is set.
C25_SecondSendRaised ==
    \E w \in 1..Len(workers) :
        /\ workers[w].pc = "raised"
        /\ workers[w].counter = 1
        /\ workers[w].exception = "send_chat_action"
        /\ sender.closed_event
        /\ ~sender.close_event

\* C26: a start that raised 'Already running' has left the sender as it was:
\* the same task and the same two signals as before the call.
C26_FailedStartChangesNothing ==
    (slast.fresh /\ slast.op = "start" /\ slast.result = "Already running")
        => sender = slast.before

\* C26: the worker had ended on its own and set the exit signal; a start has
\* raised 'Already running' and the exit signal is clear now, so a stop will
\* wait for a signal that no worker is left to set.
C26_FailedStartClearedExitSignal ==
    /\ slast.fresh
    /\ slast.op = "start"
    /\ slast.result = "Already running"
    /\ slast.before.closed_event
    /\ ~sender.closed_event
    /\ WorkerEnded(workers[sender.task])
    /\ StopBody(slast.before).waits = FALSE
    /\ StopBody(sender).waits = TRUE

----------------------------------------------------------------------------
(* The payload of pack() split again, in the codec scenario.               *)

\* C27: whenever pack(x) succeeds, the payload split on the separator, as
\* unpack() splits it, is the prefix followed by the tokens pack() produced.
C27_SplitGivesPackedTokens ==
    (PackCalled /\ packed.status = "ok") => Split(packed.data, cls.sep) = packed.tokens

\* C27: a class with a separator of two characters has packed an instance whose
\* first token ends with the separator's character: the split payload has as many
\* tokens as pack() produced, with other contents.
C27_TokenEndsWithSeparatorCharacter ==
    /\ PackCalled
    /\ packed.status = "ok"
    /\ cls.sep = <<":", ":">>
    /\ cls.prefix = <<"p">>
    /\ packed.tokens = <<<<"p">>, <<":">>, <<"a">>>>
    /\ Split(packed.data, cls.sep) = <<<<"p">>, <<>>, <<":", "a">>>>

----------------------------------------------------------------------------
(* The list a builder was constructed from, in the ownership scenario.     *)

\* C28: a builder constructed from a list owns its grid: no call of add, row,
\* adjust or attach on the builder changes the list it was constructed from.
C28_ConstructorListUntouched ==
    (arg # 0 /\ ocall \in {"add", "row", "adjust", "attach"})
        => GridValue(heap, arg) = oprev.arg

\* C28: the builder was constructed from the caller's list and still holds that
\* very list as its grid; row() has appended its rows to it, and the caller's list
\* has grown by them.
C28_RowGrewCallersList ==
    /\ arg # 0
    /\ self_markup = arg
    /\ ocall = "row"
    /\ Len(oprev.arg) = 1
    /\ Len(GridValue(heap, arg)) = 3
    /\ SubSeq(GridValue(heap, arg), 1, 1) = oprev.arg

====
